---- MODULE Spec2Model ----
(***************************************************************************)
(* A model of the iffpicture library of iff2png: the picture lifecycle     *)
(* (open, parse, decode, close, free), the ByteRun1 run-length decoder,    *)
(* the FAXX bitstream decoders (Modified Huffman, Modified READ), the      *)
(* bitplane-to-palette decoders and the output format analysis.            *)
(*                                                                         *)
(* Each sub-machine has its own specification over the shared variables:   *)
(*   Spec      the picture lifecycle (iffpicture.c)                        *)
(*   SpecParse ParseIFFPicture alone, with fairness                        *)
(*   SpecRLE   DecompressByteRun1, one action per loop iteration           *)
(*   SpecEOL   SkipToEOL over a concrete bitstream                         *)
(*   SpecMR    DecodeMRLine over a concrete bitstream                      *)
(*   SpecFax   DecodeFAXX over a concrete bitstream                        *)
(*   SpecPix   DecodeILBM/DecodeEHB row decoding and GetOptimalPNGConfig   *)
(*   SpecRun   DecodeMHRun on a bitstream that presents chosen codes       *)
(*   SpecHam   DecodeHAM row decoding                                      *)
(*   SpecAnalyze AnalyzeFormat on a parsed picture                         *)
(*   SpecScratch the scratch buffers of one decoder call                   *)
(*   SpecLookup  the palette reads of the decoders                         *)
(*   SpecLoop    the decoder loops, one iteration per step, with fairness  *)
(***************************************************************************)
EXTENDS Integers, Sequences, FiniteSets, TLC

VARIABLES pic, heap, file, ret, rle, fax, pix

vars == <<pic, heap, file, ret, rle, fax, pix>>

(***************************************************************************)
(* Return codes and error codes                                            *)
(***************************************************************************)
RETURN_OK == "RETURN_OK"
RETURN_FAIL == "RETURN_FAIL"
IFFPICTURE_OK == 0
IFFPICTURE_ERROR == -1
IFFPICTURE_NOMEM == -2
IFFPICTURE_BADFILE == -3
IFFPICTURE_UNSUPPORTED == -4
IFFPICTURE_INVALID == -5

(***************************************************************************)
(* Byte arithmetic                                                         *)
(***************************************************************************)
RECURSIVE Pow2(_)
Pow2(n) ==
    IF n = 0 THEN 1 ELSE 2 * Pow2(n - 1)

\* bit k (0 = least significant) of the non-negative integer v
BitOf(v, k) ==
    (v \div Pow2(k)) % 2

\* the value of a C expression stored into a UBYTE
ToUBYTE(v) ==
    v % 256

\* a sequence of n copies of v
RECURSIVE Rep(_, _)
Rep(v, n) ==
    IF n <= 0 THEN <<>> ELSE <<v>> \o Rep(v, n - 1)

\* the largest element of a non-empty set of numbers
Max(S) ==
    CHOOSE x \in S : \A y \in S : y <= x

\* all sequences over S of length at most n
RECURSIVE SeqsUpTo(_, _)
SeqsUpTo(S, n) ==
    IF n = 0 THEN {<<>>}
    ELSE LET shorter == SeqsUpTo(S, n - 1)
         IN  shorter \cup {Append(s, x) : s \in {t \in shorter : Len(t) = n - 1}, x \in S}

(***************************************************************************)
(* Idle values of the sub-machines a specification does not run            *)
(***************************************************************************)
PicIdle == [opened |-> FALSE]
HeapIdle == <<>>
FileIdle == [formtype |-> "none"]
RetIdle == [call |-> "none", result |-> RETURN_OK]
RleIdle == [status |-> "idle"]
FaxIdle == [status |-> "idle"]
PixIdle == [status |-> "idle"]

(***************************************************************************)
(* ByteRun1 run-length decoder: DecompressByteRun1 (image_decoder.c)       *)
(***************************************************************************)
\* Bounds of the run-length machine
MaxSrcLen == 6
MaxDestLen == 6

\* Source bytes the chunk may hold: literal controls 0 and 2, the no-op 128,
\* the repeat control 254 (each also serves as a data byte)
RleBytes == {0, 2, 128, 254}

\* ReadChunkBytes(iff, buf, n): the bytes the chunk still holds, at most n
ReadChunkBytes(src, pos, n) ==
    SubSeq(src, pos + 1, IF pos + n <= Len(src) THEN pos + n ELSE Len(src))

\* a repeat loop that stops one byte early (count > 0 for count >= 0)
RECURSIVE RepeatLoopShort(_, _, _)
RepeatLoopShort(out, count, value) ==
    IF count > 0 THEN RepeatLoopShort(Append(out, value), count - 1, value) ELSE out

\* while (count >= 0) { *out++ = value; bytesLeft--; count--; }
RECURSIVE RepeatLoop(_, _, _)
RepeatLoop(out, count, value) ==
    IF count >= 0 THEN RepeatLoop(Append(out, value), count - 1, value) ELSE out

\* a test that lets every run through
WouldOverflowNever(count, bytesLeft) ==
    FALSE

\* if (count > bytesLeft) return -1; (count + 1 for a repeat run)
WouldOverflow(count, bytesLeft) ==
    count > bytesLeft

RleInit ==
    /\ rle \in {[status |-> "run", src |-> s, destBytes |-> d, pos |-> 0,
                 out |-> <<>>, bytesLeft |-> d, ret |-> 0] :
                    s \in SeqsUpTo(RleBytes, MaxSrcLen), d \in 0..MaxDestLen}
    /\ pic = PicIdle /\ heap = HeapIdle /\ file = FileIdle /\ ret = RetIdle
    /\ fax = FaxIdle /\ pix = PixIdle

\* the control byte the loop iteration reads (defined when one is left)
RleCode == rle.src[rle.pos + 1]

RleLooping ==
    /\ rle.status = "run"
    /\ rle.bytesLeft > 0

\* the control byte cannot be read: return -1
RleReadFail ==
    /\ RleLooping
    /\ Len(ReadChunkBytes(rle.src, rle.pos, 1)) # 1
    /\ rle' = [rle EXCEPT !.status = "fail", !.ret = -1]
    /\ UNCHANGED <<pic, heap, file, ret, fax, pix>>

\* code <= 127: copy the next code+1 bytes
RleLiteral ==
    /\ RleLooping
    /\ Len(ReadChunkBytes(rle.src, rle.pos, 1)) = 1
    /\ RleCode <= 127
    /\ LET count == RleCode + 1
           got == ReadChunkBytes(rle.src, rle.pos + 1, count)
       IN  IF WouldOverflow(count, rle.bytesLeft)
           THEN rle' = [rle EXCEPT !.status = "fail", !.ret = -1, !.pos = @ + 1]
           ELSE IF Len(got) # count
           THEN rle' = [rle EXCEPT !.status = "fail", !.ret = -1,
                                   !.pos = @ + 1 + Len(got), !.out = @ \o got]
           ELSE rle' = [rle EXCEPT !.pos = @ + 1 + count, !.out = @ \o got,
                                   !.bytesLeft = @ - count]
    /\ UNCHANGED <<pic, heap, file, ret, fax, pix>>

\* code 129..255: repeat the next byte (256-code)+1 times
RleRepeat ==
    /\ RleLooping
    /\ Len(ReadChunkBytes(rle.src, rle.pos, 1)) = 1
    /\ RleCode > 127 /\ RleCode # 128
    /\ LET count == 256 - RleCode
           got == ReadChunkBytes(rle.src, rle.pos + 1, 1)
       IN  IF WouldOverflow(count + 1, rle.bytesLeft)
           THEN rle' = [rle EXCEPT !.status = "fail", !.ret = -1, !.pos = @ + 1]
           ELSE IF Len(got) # 1
           THEN rle' = [rle EXCEPT !.status = "fail", !.ret = -1, !.pos = @ + 1]
           ELSE rle' = [rle EXCEPT !.pos = @ + 2,
                                   !.out = RepeatLoop(@, count, got[1]),
                                   !.bytesLeft = @ - (count + 1)]
    /\ UNCHANGED <<pic, heap, file, ret, fax, pix>>

\* code == 128 is NOP, continue
RleNop ==
    /\ RleLooping
    /\ Len(ReadChunkBytes(rle.src, rle.pos, 1)) = 1
    /\ RleCode = 128
    /\ rle' = [rle EXCEPT !.pos = @ + 1]
    /\ UNCHANGED <<pic, heap, file, ret, fax, pix>>

\* the loop ends: return destBytes - bytesLeft
RleReturn ==
    /\ rle.status = "run"
    /\ ~(rle.bytesLeft > 0)
    /\ rle' = [rle EXCEPT !.status = "ok", !.ret = rle.destBytes - rle.bytesLeft]
    /\ UNCHANGED <<pic, heap, file, ret, fax, pix>>

RleNext ==
    \/ RleReadFail
    \/ RleLiteral
    \/ RleRepeat
    \/ RleNop
    \/ RleReturn

SpecRLE == RleInit /\ [][RleNext]_vars

\* The expansion the format documents, read off the consumed source bytes:
\* 0..127 copies the next value+1 bytes, 128 yields nothing, 129..255 repeats
\* the next byte (256-value)+1 times
RECURSIVE Expand(_)
Expand(s) ==
    IF s = <<>> THEN <<>>
    ELSE IF s[1] <= 127
         THEN SubSeq(s, 2, s[1] + 2) \o Expand(SubSeq(s, s[1] + 3, Len(s)))
    ELSE IF s[1] = 128
         THEN Expand(Tail(s))
    ELSE Rep(s[2], (256 - s[1]) + 1) \o Expand(SubSeq(s, 3, Len(s)))

\* the golden vectors 0x02,a,b,c,0xFE,d
IsGolden(s) ==
    /\ Len(s) = 6
    /\ s[1] = 2
    /\ s[5] = 254

\* C10: a successful run-length decode has produced exactly destLen bytes, and
\* they are the documented expansion of the control bytes it consumed (literal
\* runs of value+1 bytes, 128 a no-op, repeats of (256-value)+1 bytes); the
\* golden vector 0x02,a,b,c,0xFE,d with destLen 6 decodes to a,b,c,d,d,d.
C10_RunLengthExpansion ==
    rle.status = "ok" =>
        /\ rle.ret = rle.destBytes
        /\ Len(rle.out) = rle.destBytes
        /\ rle.out = Expand(SubSeq(rle.src, 1, rle.pos))
        /\ (IsGolden(rle.src) /\ rle.destBytes = 6) =>
              rle.out = <<rle.src[2], rle.src[3], rle.src[4],
                          rle.src[6], rle.src[6], rle.src[6]>>

\* a golden vector with a != d has been decoded to the end with destLen 6
C10_Witness ==
    /\ rle.status = "ok"
    /\ IsGolden(rle.src)
    /\ rle.destBytes = 6
    /\ rle.pos = 6
    /\ rle.src[2] # rle.src[6]


\* the number of bytes the run of a control byte writes
RunLength(code) ==
    IF code <= 127 THEN code + 1
    ELSE IF code = 128 THEN 0
    ELSE (256 - code) + 1

\* C11: a step of the decoder at a control byte whose run is longer than the
\* bytes still to be produced ends the call with -1 and writes nothing; and
\* no step ever leaves more than destBytes bytes in the destination.
C11_OverrunRejected ==
    [][/\ (/\ RleLooping
           /\ rle.pos < Len(rle.src)
           /\ RunLength(RleCode) > rle.bytesLeft) =>
              (/\ rle'.status = "fail"
               /\ rle'.ret = -1
               /\ rle'.out = rle.out)
       /\ Len(rle'.out) <= rle'.destBytes]_vars

\* a repeat run of 3 was rejected with 2 bytes to go, its value byte present
C11_Witness ==
    /\ rle.status = "fail" /\ rle.ret = -1
    /\ rle.pos >= 1 /\ rle.pos < Len(rle.src)
    /\ rle.src[rle.pos] = 254
    /\ rle.bytesLeft = 2
    /\ Len(rle.out) = rle.destBytes - 2
    /\ Len(rle.out) > 0

(***************************************************************************)
(* FAXX bitstream reader: FaxBitstream, ReadFaxBit, SkipToEOL              *)
(***************************************************************************)
\* InitFaxBitstream: nothing read yet, bitPos = 8 forces a read on first bit;
\* src is the PAGE chunk from the reader's position, n the bytes read from it
InitFaxBitstream(src) ==
    [src |-> src, n |-> 0, currentByte |-> 0, bitPos |-> 8, eof |-> FALSE]

\* a reader that delivers zero bits for ever once the data has ended
ReadFaxBitEndless(bs) ==
    IF bs.bitPos >= 8 /\ bs.n >= Len(bs.src)
    THEN [bit |-> 0, bs |-> bs]
    ELSE IF bs.bitPos >= 8
    THEN [bit |-> BitOf(bs.src[bs.n + 1], 7),
          bs |-> [bs EXCEPT !.currentByte = bs.src[bs.n + 1], !.n = @ + 1,
                            !.bitPos = 1]]
    ELSE [bit |-> BitOf(bs.currentByte, 7 - bs.bitPos),
          bs |-> [bs EXCEPT !.bitPos = @ + 1]]

\* ReadFaxBit: [bit |-> 0, 1 or -1 on end of data, bs |-> the reader afterwards]
ReadFaxBit(bs) ==
    IF bs.eof THEN [bit |-> -1, bs |-> bs]
    ELSE IF bs.bitPos >= 8 /\ bs.n >= Len(bs.src)
         THEN [bit |-> -1, bs |-> [bs EXCEPT !.eof = TRUE]]
    ELSE LET b1 == IF bs.bitPos >= 8
                   THEN [bs EXCEPT !.currentByte = bs.src[bs.n + 1],
                                   !.n = @ + 1, !.bitPos = 0]
                   ELSE bs
         IN  [bit |-> BitOf(b1.currentByte, 7 - b1.bitPos),
              bs |-> [b1 EXCEPT !.bitPos = @ + 1]]

\* while ((bs->bitPos % 8) != 0 && !bs->eof): consume fill bits
RECURSIVE AlignToByte(_)
AlignToByte(bs) ==
    IF (bs.bitPos % 8) # 0 /\ ~bs.eof
    THEN LET rd == ReadFaxBit(bs)
         IN  IF rd.bit < 0 THEN rd.bs ELSE AlignToByte(rd.bs)
    ELSE bs

\* the scan loop of SkipToEOL with its counter of consecutive zero bits
RECURSIVE SkipToEOLLoop(_, _)
SkipToEOLLoop(bs, consecutiveZeros) ==
    IF bs.eof THEN [r |-> -1, bs |-> bs]
    ELSE LET rd == ReadFaxBit(bs)
         IN  IF rd.bit < 0 THEN [r |-> -1, bs |-> rd.bs]
             ELSE IF rd.bit = 0
             THEN IF consecutiveZeros + 1 = 11
                  THEN LET rd2 == ReadFaxBit(rd.bs)
                       IN  IF rd2.bit < 0 THEN [r |-> -1, bs |-> rd2.bs]
                           ELSE IF rd2.bit = 1
                           THEN [r |-> 0, bs |-> AlignToByte(rd2.bs)]
                           ELSE SkipToEOLLoop(rd2.bs, 0)
                  ELSE IF consecutiveZeros + 1 > 11
                  THEN SkipToEOLLoop(rd.bs, 0)
                  ELSE SkipToEOLLoop(rd.bs, consecutiveZeros + 1)
             ELSE SkipToEOLLoop(rd.bs, 0)

\* SkipToEOL: [r |-> 0 when an EOL was found, -1 otherwise, bs |-> the reader]
SkipToEOL(bs) ==
    SkipToEOLLoop(bs, 0)

\* Bounds and inputs of the end-of-line machine
MaxEolBytes == 3
EolBytes == {0, 1, 16, 128, 255}

EolInit ==
    /\ fax \in {[status |-> "scan", bs |-> InitFaxBitstream(s), r |-> 0, calls |-> 0] :
                    s \in SeqsUpTo(EolBytes, MaxEolBytes)}
    /\ pic = PicIdle /\ heap = HeapIdle /\ file = FileIdle /\ ret = RetIdle
    /\ rle = RleIdle /\ pix = PixIdle

\* one call of SkipToEOL on the reader as the previous call left it
EolFound ==
    /\ fax.status = "scan"
    /\ SkipToEOL(fax.bs).r = 0
    /\ fax' = [fax EXCEPT !.bs = SkipToEOL(fax.bs).bs, !.r = 0, !.calls = @ + 1]
    /\ UNCHANGED <<pic, heap, file, ret, rle, pix>>

EolMissing ==
    /\ fax.status = "scan"
    /\ SkipToEOL(fax.bs).r < 0
    /\ fax' = [fax EXCEPT !.bs = SkipToEOL(fax.bs).bs, !.r = -1, !.calls = @ + 1,
                          !.status = "end"]
    /\ UNCHANGED <<pic, heap, file, ret, rle, pix>>

EolNext ==
    \/ EolFound
    \/ EolMissing

SpecEOL == EolInit /\ [][EolNext]_vars

\* the bits of a byte sequence, most significant bit of each byte first
StreamBit(src, i) ==
    BitOf(src[(i \div 8) + 1], 7 - (i % 8))

\* the bits from position `from` on hold eleven zero bits followed by a one bit
HasEOLPattern(src, from) ==
    \E i \in from..(8 * Len(src) - 12) :
        /\ \A k \in 0..10 : StreamBit(src, i + k) = 0
        /\ StreamBit(src, i + 11) = 1

\* C5: SkipToEOL succeeds whenever the stream holds eleven zero bits followed
\* by a one bit, wherever the pattern starts (zero fill bits may precede it),
\* and on success the bit cursor is on a byte boundary.
C5_EolFoundWheneverPresent ==
    (fax.status \in {"scan", "end"} /\ fax.calls = 1) =>
        /\ HasEOLPattern(fax.bs.src, 0) => fax.r = 0
        /\ fax.r = 0 => fax.bs.bitPos % 8 = 0


(***************************************************************************)
(* Modified Huffman (1D): code tables, DecodeMHRun, DecodeMHLine           *)
(***************************************************************************)
\* White terminating codes <<code, bits, run>> for runs 0-63
mh_white_codes ==
    <<<<53, 8, 0>>, <<7, 6, 1>>, <<7, 4, 2>>, <<8, 4, 3>>, <<11, 4, 4>>, <<12, 4, 5>>,
      <<14, 4, 6>>, <<15, 4, 7>>, <<19, 5, 8>>, <<20, 5, 9>>, <<7, 5, 10>>, <<8, 5, 11>>,
      <<8, 6, 12>>, <<3, 6, 13>>, <<52, 6, 14>>, <<53, 6, 15>>, <<42, 6, 16>>, <<43, 6, 17>>,
      <<39, 7, 18>>, <<12, 7, 19>>, <<8, 7, 20>>, <<23, 7, 21>>, <<3, 7, 22>>, <<4, 7, 23>>,
      <<40, 7, 24>>, <<43, 7, 25>>, <<19, 7, 26>>, <<36, 7, 27>>, <<24, 7, 28>>, <<2, 8, 29>>,
      <<3, 8, 30>>, <<26, 8, 31>>, <<27, 8, 32>>, <<18, 8, 33>>, <<19, 8, 34>>, <<20, 8, 35>>,
      <<21, 8, 36>>, <<22, 8, 37>>, <<23, 8, 38>>, <<40, 8, 39>>, <<41, 8, 40>>, <<42, 8, 41>>,
      <<43, 8, 42>>, <<44, 8, 43>>, <<45, 8, 44>>, <<4, 8, 45>>, <<5, 8, 46>>, <<10, 8, 47>>,
      <<11, 8, 48>>, <<82, 8, 49>>, <<83, 8, 50>>, <<84, 8, 51>>, <<85, 8, 52>>, <<36, 8, 53>>,
      <<37, 8, 54>>, <<88, 8, 55>>, <<89, 8, 56>>, <<90, 8, 57>>, <<91, 8, 58>>, <<74, 8, 59>>,
      <<75, 8, 60>>, <<50, 8, 61>>, <<51, 8, 62>>, <<52, 8, 63>>>>

\* Black terminating codes <<code, bits, run>> for runs 0-63
mh_black_codes ==
    <<<<55, 10, 0>>, <<2, 3, 1>>, <<3, 2, 2>>, <<2, 2, 3>>, <<3, 3, 4>>, <<3, 4, 5>>,
      <<2, 4, 6>>, <<3, 5, 7>>, <<5, 6, 8>>, <<4, 6, 9>>, <<4, 7, 10>>, <<5, 7, 11>>,
      <<7, 7, 12>>, <<4, 8, 13>>, <<7, 8, 14>>, <<24, 9, 15>>, <<23, 10, 16>>, <<24, 10, 17>>,
      <<8, 10, 18>>, <<103, 11, 19>>, <<104, 11, 20>>, <<108, 11, 21>>, <<55, 11, 22>>, <<40, 11, 23>>,
      <<23, 11, 24>>, <<24, 11, 25>>, <<202, 12, 26>>, <<203, 12, 27>>, <<204, 12, 28>>, <<205, 12, 29>>,
      <<104, 12, 30>>, <<105, 12, 31>>, <<106, 12, 32>>, <<107, 12, 33>>, <<210, 12, 34>>, <<211, 12, 35>>,
      <<212, 12, 36>>, <<213, 12, 37>>, <<214, 12, 38>>, <<215, 12, 39>>, <<108, 12, 40>>, <<109, 12, 41>>,
      <<218, 12, 42>>, <<219, 12, 43>>, <<84, 12, 44>>, <<85, 12, 45>>, <<86, 12, 46>>, <<87, 12, 47>>,
      <<100, 12, 48>>, <<101, 12, 49>>, <<82, 12, 50>>, <<83, 12, 51>>, <<36, 12, 52>>, <<55, 12, 53>>,
      <<56, 12, 54>>, <<39, 12, 55>>, <<40, 12, 56>>, <<88, 12, 57>>, <<89, 12, 58>>, <<43, 12, 59>>,
      <<44, 12, 60>>, <<90, 12, 61>>, <<102, 12, 62>>, <<103, 12, 63>>>>

\* Make-up codes <<code, bits, run>> for runs >= 64, shared by white and black
mh_makeup_codes ==
    <<<<27, 5, 64>>, <<18, 5, 128>>, <<23, 6, 192>>, <<55, 7, 256>>, <<54, 8, 320>>, <<55, 8, 384>>,
      <<100, 8, 448>>, <<101, 8, 512>>, <<104, 8, 576>>, <<103, 8, 640>>, <<204, 9, 704>>, <<205, 9, 768>>,
      <<210, 9, 832>>, <<211, 9, 896>>, <<212, 9, 960>>, <<213, 9, 1024>>, <<214, 9, 1088>>, <<215, 9, 1152>>,
      <<216, 9, 1216>>, <<217, 9, 1280>>, <<218, 9, 1344>>, <<219, 9, 1408>>, <<152, 9, 1472>>, <<153, 9, 1536>>,
      <<154, 9, 1600>>, <<24, 6, 1664>>, <<155, 9, 1728>>, <<8, 11, 1792>>, <<12, 11, 1856>>, <<13, 11, 1920>>,
      <<18, 12, 1984>>, <<19, 12, 2048>>, <<20, 12, 2112>>, <<21, 12, 2176>>, <<22, 12, 2240>>, <<23, 12, 2304>>,
      <<28, 12, 2368>>, <<29, 12, 2432>>, <<30, 12, 2496>>, <<31, 12, 2560>>>>

\* a table search that compares the code value and not its length
FirstMatchAnyLength(table, bitsRead, code) ==
    LET hits == {i \in 1..Len(table) : table[i][1] = code}
    IN  IF hits = {} THEN 0
        ELSE CHOOSE i \in hits : \A j \in hits : i <= j

\* the first table entry of `bitsRead` bits whose code equals `code` under the
\* mask of that length; 0 when the scan finds none
FirstMatch(table, bitsRead, code) ==
    LET mask == Pow2(bitsRead)
        hits == {i \in 1..Len(table) :
                    /\ table[i][2] = bitsRead
                    /\ (table[i][1] % mask) = (code % mask)}
    IN  IF hits = {} THEN 0
        ELSE CHOOSE i \in hits : \A j \in hits : i <= j

\* the result of DecodeMHRun when no further code can be matched
MHRunEnd(totalRun, bs) ==
    [run |-> IF totalRun > 0 THEN totalRun ELSE -1, bs |-> bs]

\* DecodeMHRun: the outer while(1) is DecodeMHRunFrom (one code per turn), the
\* inner bit loop is MatchCode; [run |-> run length or -1, bs |-> the reader]
RECURSIVE DecodeMHRunFrom(_, _, _)
RECURSIVE MatchCode(_, _, _, _, _)
\* the table searches after one more bit: mk and tm are the matching entries
\* of the make-up table and of the colour's terminating table (0: none)
MatchTables(bs, isWhite, totalRun, code, bitsRead, mk, tm) ==
    IF mk # 0
    THEN DecodeMHRunFrom(bs, isWhite, totalRun + mh_makeup_codes[mk][3])
    ELSE IF tm # 0
    THEN [run |-> totalRun + (IF isWhite THEN mh_white_codes[tm][3]
                              ELSE mh_black_codes[tm][3]),
          bs |-> bs]
    ELSE MatchCode(bs, isWhite, totalRun, code, bitsRead)

\* code = (code << 1) | bit; bitsRead++ for the bit rd just read
MatchCodeBit(rd, isWhite, totalRun, code, bitsRead) ==
    IF rd.bit < 0 THEN MHRunEnd(totalRun, rd.bs)
    ELSE MatchTables(rd.bs, isWhite, totalRun, (code * 2) + rd.bit, bitsRead + 1,
                     FirstMatch(mh_makeup_codes, bitsRead + 1, (code * 2) + rd.bit),
                     FirstMatch(IF isWhite THEN mh_white_codes ELSE mh_black_codes,
                                bitsRead + 1, (code * 2) + rd.bit))

MatchCode(bs, isWhite, totalRun, code, bitsRead) ==
    IF bitsRead < 13
    THEN MatchCodeBit(ReadFaxBit(bs), isWhite, totalRun, code, bitsRead)
    ELSE MHRunEnd(totalRun, bs)

DecodeMHRunFrom(bs, isWhite, totalRun) ==
    MatchCode(bs, isWhite, totalRun, 0, 0)

DecodeMHRun(bs, isWhite) ==
    DecodeMHRunFrom(bs, isWhite, 0)

\* the colour a run is written with: 0 for a white run, 1 for a black run
RunColor(isWhite) ==
    IF isWhite THEN 0 ELSE 1

\* the run loop of DecodeMHLine; output holds the pixels written so far
\* (pos of them), the line being padded to width when the loop ends
RECURSIVE DecodeMHLineLoop(_, _, _, _, _)
\* one decoded run d of the loop: written clipped to the line, or the line is
\* filled with the current colour when no run could be decoded
MHLineRun(d, width, output, isWhite, runCount) ==
    IF d.run < 0
    THEN [r |-> RETURN_OK, bs |-> d.bs,
          output |-> output \o Rep(RunColor(isWhite), width - Len(output))]
    ELSE DecodeMHLineLoop(d.bs, width,
                          output \o Rep(RunColor(isWhite),
                                        IF d.run > width - Len(output)
                                        THEN width - Len(output) ELSE d.run),
                          ~isWhite, runCount + 1)

DecodeMHLineLoop(bs, width, output, isWhite, runCount) ==
    IF Len(output) < width /\ runCount < ((width * 2) % 65536)
    THEN MHLineRun(DecodeMHRun(bs, isWhite), width, output, isWhite, runCount)
    ELSE [r |-> RETURN_OK, bs |-> bs,
          output |-> output \o Rep(RunColor(isWhite), width - Len(output))]

\* DecodeMHLine: [r |-> RETURN_OK, output |-> width pixels, bs |-> the reader]
DecodeMHLine(bs, width) ==
    DecodeMHLineLoop(bs, width, <<>>, TRUE, 0)


(***************************************************************************)
(* Modified READ (2D): DecodeMROpcode, DecodeMRLine                        *)
(***************************************************************************)
OP_P == -5
OP_H == -6
OP_VR3 == -7
OP_VR2 == -8
OP_VR1 == -9
OP_V == -10
OP_VL1 == -11
OP_VL2 == -12
OP_VL3 == -13

\* the pixel in column pos (from 0) of a line
Pixel(line, pos) ==
    line[pos + 1]

\* FindNextChangingElement: the first column from a0 on whose pixel differs
\* from color, or width
FindNextChangingElement(line, width, a0, color) ==
    LET hits == {pos \in a0..(width - 1) : Pixel(line, pos) # color}
    IN  IF hits = {} THEN width
        ELSE CHOOSE pos \in hits : \A q \in hits : pos <= q

\* FindNextChangingElementAny: the first column after a0 whose pixel differs
\* from the pixel in a0, or width
FindNextChangingElementAny(line, width, a0) ==
    IF a0 >= width THEN width
    ELSE LET hits == {pos \in (a0 + 1)..(width - 1) :
                        Pixel(line, pos) # Pixel(line, a0)}
         IN  IF hits = {} THEN width
             ELSE CHOOSE pos \in hits : \A q \in hits : pos <= q

\* one more bit of an opcode: code = (code << 1) | bit; ok turns FALSE when
\* ReadFaxBit returned -1 (DecodeMROpcode then returns -1 at once)
ReadCodeBitOf(acc, rd) ==
    IF rd.bit < 0 THEN [code |-> acc.code, bs |-> rd.bs, ok |-> FALSE]
    ELSE [code |-> (acc.code * 2) + rd.bit, bs |-> rd.bs, ok |-> TRUE]

ReadCodeBit(acc) ==
    IF acc.ok THEN ReadCodeBitOf(acc, ReadFaxBit(acc.bs)) ELSE acc

\* the opcode tests of DecodeMROpcode after bitsRead bits: 1 bit (V), 3 bits
\* (H, VR1, VL1), 4 bits (P), 6 bits (VR2, VL2), 7 bits (VR3, VL3)
RECURSIVE MROpcodeAfter(_, _)
MROpcodeAfter(c, bitsRead) ==
    IF ~c.ok THEN [op |-> -1, bs |-> c.bs]
    ELSE IF bitsRead = 1 /\ c.code = 1 THEN [op |-> OP_V, bs |-> c.bs]
    ELSE IF bitsRead = 3 /\ c.code = 1 THEN [op |-> OP_H, bs |-> c.bs]
    ELSE IF bitsRead = 3 /\ c.code = 3 THEN [op |-> OP_VR1, bs |-> c.bs]
    ELSE IF bitsRead = 3 /\ c.code = 2 THEN [op |-> OP_VL1, bs |-> c.bs]
    ELSE IF bitsRead = 4 /\ c.code = 1 THEN [op |-> OP_P, bs |-> c.bs]
    ELSE IF bitsRead = 6 /\ c.code = 3 THEN [op |-> OP_VR2, bs |-> c.bs]
    ELSE IF bitsRead = 6 /\ c.code = 2 THEN [op |-> OP_VL2, bs |-> c.bs]
    ELSE IF bitsRead = 7 /\ c.code = 3 THEN [op |-> OP_VR3, bs |-> c.bs]
    ELSE IF bitsRead = 7 /\ c.code = 2 THEN [op |-> OP_VL3, bs |-> c.bs]
    ELSE IF bitsRead = 7 THEN [op |-> -1, bs |-> c.bs]
    ELSE MROpcodeAfter(ReadCodeBit(c), bitsRead + 1)

\* DecodeMROpcode reads up to seven bits: [op |-> an OP_ code or -1, bs |-> reader]
DecodeMROpcode(bs) ==
    MROpcodeAfter(ReadCodeBit([code |-> 0, bs |-> bs, ok |-> TRUE]), 1)

\* a0 = (UWORD)((LONG)b1 + (opcode - OP_V)), clamped to width, 0 on underflow
VerticalTarget(b1, opcode, width) ==
    LET raw == b1 + (opcode - OP_V)
        a0 == raw % 65536
        clamped == IF a0 > width THEN width ELSE a0
    IN  IF raw < 0 THEN 0 ELSE clamped

\* the pixel conversion at the end of DecodeMRLine: runs of alternating colour
\* between the changing elements of curline (which ends with the sentinel
\* width + 1), starting white, the rest filled with the last colour
RECURSIVE ChangesToPixels(_, _, _, _, _)
ChangesToPixels(curline, k, width, output, currentColor) ==
    IF curline[k] <= width
    THEN LET upto == IF curline[k] < width THEN curline[k] ELSE width
         IN  ChangesToPixels(curline, k + 1, width,
                             output \o Rep(currentColor, upto - Len(output)),
                             IF currentColor = 0 THEN 1 ELSE 0)
    ELSE output \o Rep(currentColor, width - Len(output))

\* the end of DecodeMRLine: the sentinel is stored and the changing elements
\* are converted to pixels.  The array has width + 2 entries: a store beyond
\* it is reported as r = "overrun" (the C code writes outside its allocation).
MRFinish(curline, bs, width) ==
    IF Len(curline) + 1 > width + 2
    THEN [r |-> "overrun", bs |-> bs, output |-> <<>>]
    ELSE [r |-> RETURN_OK, bs |-> bs,
          output |-> ChangesToPixels(Append(curline, width + 1), 1, width, <<>>, 0)]

\* a0 += runLength in UWORD arithmetic; if (a0 > width) a0 = width
AddRun(a0, runLength, width) ==
    IF (a0 + runLength) % 65536 > width THEN width ELSE (a0 + runLength) % 65536

\* the do-while loop of DecodeMRLine: curline holds the changing elements
\* stored so far
RECURSIVE DecodeMRLineLoop(_, _, _, _, _, _)
\* horizontal mode after its second run d2; a1 is the position after the first
MRHorizontal2(d2, refLine, width, a1, isWhite, curline) ==
    IF d2.run < 0 THEN [r |-> RETURN_FAIL, bs |-> d2.bs, output |-> <<>>]
    ELSE IF AddRun(a1, d2.run, width) < width
    THEN DecodeMRLineLoop(d2.bs, refLine, width, AddRun(a1, d2.run, width),
                          isWhite,
                          curline \o <<a1, AddRun(a1, d2.run, width)>>)
    ELSE MRFinish(curline \o <<a1, AddRun(a1, d2.run, width)>>, d2.bs, width)

\* horizontal mode after its first run d1
MRHorizontal1(d1, refLine, width, a0, isWhite, curline) ==
    IF d1.run < 0 THEN [r |-> RETURN_FAIL, bs |-> d1.bs, output |-> <<>>]
    ELSE MRHorizontal2(DecodeMHRun(d1.bs, ~isWhite), refLine, width,
                       AddRun(a0, d1.run, width), isWhite, curline)

\* vertical mode with a b1 on the reference line; a1 is the new a0
MRVertical(a1, bs, refLine, width, isWhite, curline) ==
    IF a1 < width
    THEN DecodeMRLineLoop(bs, refLine, width, a1, ~isWhite, Append(curline, a1))
    ELSE MRFinish(Append(curline, a1), bs, width)

\* one turn of the loop for the opcode o read, with b1 and b2 found
MROpcodeStep(o, refLine, width, a0, isWhite, curline, b1, b2) ==
    IF o.op < 0 THEN [r |-> RETURN_FAIL, bs |-> o.bs, output |-> <<>>]
    ELSE IF o.op = OP_P
    THEN IF b2 >= width THEN MRFinish(curline, o.bs, width)
         ELSE DecodeMRLineLoop(o.bs, refLine, width, b2, isWhite, curline)
    ELSE IF o.op = OP_H
    THEN MRHorizontal1(DecodeMHRun(o.bs, isWhite), refLine, width, a0, isWhite,
                       curline)
    ELSE IF o.op >= OP_VL3 /\ o.op <= OP_VR3
    THEN IF b1 >= width
         THEN MRFinish(IF a0 < width THEN Append(curline, width) ELSE curline,
                       o.bs, width)
         ELSE MRVertical(VerticalTarget(b1, o.op, width), o.bs, refLine, width,
                         isWhite, curline)
    ELSE [r |-> RETURN_FAIL, bs |-> o.bs, output |-> <<>>]

\* b2: the next changing element of the reference line after b1
FindB2(refLine, width, b1) ==
    IF b1 < width THEN FindNextChangingElementAny(refLine, width, b1 + 1)
    ELSE width

\* the turn once b1 is found
MRTurn(bs, refLine, width, a0, isWhite, curline, b1) ==
    MROpcodeStep(DecodeMROpcode(bs), refLine, width, a0, isWhite, curline, b1,
                 FindB2(refLine, width, b1))

DecodeMRLineLoop(bs, refLine, width, a0, isWhite, curline) ==
    IF Len(curline) > width + 2
    THEN [r |-> "overrun", bs |-> bs, output |-> <<>>]
    ELSE MRTurn(bs, refLine, width, a0, isWhite, curline,
                FindNextChangingElement(refLine, width, a0,
                                        IF isWhite THEN 1 ELSE 0))

\* DecodeMRLine: [r |-> RETURN_OK or RETURN_FAIL, output |-> width pixels,
\* bs |-> the reader]; curlineOk is whether AllocMem returned the array
DecodeMRLine(bs, refLine, width, curlineOk) ==
    IF ~curlineOk THEN [r |-> RETURN_FAIL, bs |-> bs, output |-> <<>>]
    ELSE DecodeMRLineLoop(bs, refLine, width, 0, TRUE, <<>>)


\* Bounds and inputs of the Modified READ line machine
MaxMRBytes == 3
MRWidths == {2, 11, 12}
\* 0xFF: Vertical(0) opcodes; 0x82: V(0) then VL3; 0x20: Horizontal;
\* 0x10: Pass; 0x60: VR1; 0x40: VL1; 0x00: no opcode
MRBytes == {255, 130, 32, 16, 96, 64, 0}

\* a line of `width` pixels of colour c up to column t, the other colour from t
StepLine(width, t, c) ==
    [i \in 1..width |-> IF i <= t THEN c ELSE 1 - c]

MRInit ==
    /\ fax \in {[status |-> "line", bs |-> InitFaxBitstream(s), width |-> w,
                 refLine |-> StepLine(w, tr, c), curlineOk |-> TRUE,
                 r |-> RETURN_OK, output |-> <<>>] :
                    s \in SeqsUpTo(MRBytes, MaxMRBytes), w \in MRWidths,
                    tr \in 1..Max(MRWidths), c \in {0, 1}}
    /\ Len(fax.refLine) = fax.width
    /\ pic = PicIdle /\ heap = HeapIdle /\ file = FileIdle /\ ret = RetIdle
    /\ rle = RleIdle /\ pix = PixIdle

\* one call of DecodeMRLine on the drawn line; AllocMem of curline may fail
MRLine ==
    /\ fax.status = "line"
    /\ \E ok \in BOOLEAN :
         LET d == DecodeMRLine(fax.bs, fax.refLine, fax.width, ok)
         IN  fax' = [fax EXCEPT !.status = "returned", !.bs = d.bs, !.r = d.r,
                                !.output = d.output, !.curlineOk = ok]
    /\ UNCHANGED <<pic, heap, file, ret, rle, pix>>

MRNext ==
    MRLine

SpecMR == MRInit /\ [][MRNext]_vars

\* the columns (from 0) whose pixel differs from the pixel to their left
Transitions(line) ==
    {c \in 1..(Len(line) - 1) : line[c + 1] # line[c]}

\* the bitstream holds Vertical(0) opcodes only: one bits, at least one byte
AllVerticalZero(src) ==
    /\ Len(src) >= 1
    /\ \A i \in 1..Len(src) : src[i] = 255

\* C2: decoding a 2D line from Vertical(0) opcodes against a reference line
\* whose single colour transition is at column 10 succeeds, and the decoded
\* line has its single transition at column 10 as well.
C2_VerticalZeroKeepsTransition ==
    (/\ fax.status = "returned"
     /\ fax.curlineOk
     /\ Transitions(fax.refLine) = {10}
     /\ AllVerticalZero(fax.bs.src)) =>
        /\ fax.r = RETURN_OK
        /\ Len(fax.output) = fax.width
        /\ Transitions(fax.output) = {10}

(***************************************************************************)
(* DecodeFAXX (image_decoder.c) on a parsed FAXX picture                   *)
(***************************************************************************)
FXCMPNONE == 0
FXCMPMH == 1
FXCMPMR == 2
FXCMPMMR == 4

\* ((w + 15) >> 4) << 1
RowBytes(w) ==
    ((w + 15) \div 16) * 2

\* the palette ParseIFFPicture creates for FAXX: index 0 black, index 1 white
FaxxDefaultCmap ==
    [numcolors |-> 2, data |-> <<0, 0, 0, 255, 255, 255>>]

\* the RGB triple written for a palette index: the index is clamped to the
\* last palette entry as a UBYTE, then looked up in the CMAP data
CmapRGB(cmap, pixelValue) ==
    <<cmap.data[((IF pixelValue >= cmap.numcolors
                  THEN ToUBYTE(cmap.numcolors - 1) ELSE pixelValue) * 3) + 1],
      cmap.data[((IF pixelValue >= cmap.numcolors
                  THEN ToUBYTE(cmap.numcolors - 1) ELSE pixelValue) * 3) + 2],
      cmap.data[((IF pixelValue >= cmap.numcolors
                  THEN ToUBYTE(cmap.numcolors - 1) ELSE pixelValue) * 3) + 3]>>

\* a decoded line appended to paletteOut and, through the CMAP, to rgbOut
FaxStoreLine(f, line, bs) ==
    [f EXCEPT !.bs = bs, !.row = @ + 1,
              !.idx = @ \o line,
              !.rgb = @ \o [i \in 1..Len(line) |-> CmapRGB(f.cmap, line[i])]]

\* the rows from f.row on written as palette index 0 with cmapData[0..2]
FaxPadRows(f, bs) ==
    [f EXCEPT !.bs = bs, !.row = f.height, !.padFrom = f.row,
              !.idx = @ \o Rep(0, (f.height - f.row) * f.width),
              !.rgb = @ \o Rep(<<f.cmap.data[1], f.cmap.data[2], f.cmap.data[3]>>,
                               (f.height - f.row) * f.width)]

\* a failure return: freesIndices tells whether the path calls FreeMem on
\* picture->paletteIndices, clears whether it then sets the field to NULL
FaxFail(f, error, freesIndices, clears) ==
    [f EXCEPT !.status = "failed", !.r = RETURN_FAIL, !.err = error,
              !.paletteIndices = IF ~freesIndices THEN @
                                 ELSE IF clears THEN "null" ELSE "freed"]

\* Bounds and inputs of the DecodeFAXX machine
MaxFaxBytes == 6
MaxFaxWidth == 2
MaxFaxHeight == 3
\* 0x00 0x10: an EOL; 0x1F: white run 1, black run 2; 0xFF: black pixels
\* (uncompressed), a 2D tag bit and Vertical(0) opcodes (MR)
FaxBytes == {0, 16, 31, 255}
\* the compression types of FXHD, 3 standing for an unknown one
FaxCompressions == {FXCMPNONE, FXCMPMH, FXCMPMR, 3, FXCMPMMR}

FaxStart(s, w, h, c, iffOpen) ==
    [status |-> "begin", width |-> w, height |-> h, comp |-> c, iff |-> iffOpen,
     cmap |-> FaxxDefaultCmap, bs |-> InitFaxBitstream(s), row |-> 0,
     idx |-> <<>>, rgb |-> <<>>, refLine |-> <<>>, padFrom |-> -1,
     paletteIndices |-> "null", err |-> IFFPICTURE_OK, r |-> RETURN_OK]

FaxInit ==
    /\ fax \in {FaxStart(s, w, h, c, TRUE) :
                    s \in SeqsUpTo(FaxBytes, MaxFaxBytes), w \in 1..MaxFaxWidth,
                    h \in 1..MaxFaxHeight, c \in FaxCompressions}
               \cup {FaxStart(<<>>, w, h, c, FALSE) :
                    w \in 1..MaxFaxWidth, h \in 1..MaxFaxHeight,
                    c \in FaxCompressions}
    /\ pic = PicIdle /\ heap = HeapIdle /\ file = FileIdle /\ ret = RetIdle
    /\ rle = RleIdle /\ pix = PixIdle

\* the checks and the two allocations before the rows are processed
FaxBegin ==
    /\ fax.status = "begin"
    /\ \E indicesOk \in BOOLEAN, rowBufferOk \in BOOLEAN :
         fax' = IF fax.comp \notin {FXCMPNONE, FXCMPMH, FXCMPMR, FXCMPMMR}
                THEN FaxFail(fax, IFFPICTURE_UNSUPPORTED, FALSE, FALSE)
                ELSE IF ~fax.iff
                THEN FaxFail(fax, IFFPICTURE_INVALID, FALSE, FALSE)
                ELSE IF ~indicesOk
                THEN FaxFail(fax, IFFPICTURE_NOMEM, FALSE, FALSE)
                ELSE IF ~rowBufferOk
                THEN FaxFail(fax, IFFPICTURE_NOMEM, TRUE, TRUE)
                ELSE [fax EXCEPT !.paletteIndices = "live",
                                 !.status = IF fax.comp = FXCMPNONE THEN "rows"
                                            ELSE IF fax.comp = FXCMPMH THEN "mhstart"
                                            ELSE IF fax.comp = FXCMPMR THEN "mrstart"
                                            ELSE "mmr"]
    /\ UNCHANGED <<pic, heap, file, ret, rle, pix>>

\* the pixels of one uncompressed row: bit 7 - (col % 8) of byte col / 8
FaxRowPixels(rowBuffer, width) ==
    [i \in 1..width |->
        BitOf(rowBuffer[ToUBYTE((i - 1) \div 8) + 1], 7 - ((i - 1) % 8))]

\* one turn of the row loop of an uncompressed page
FaxRowNone ==
    /\ fax.status = "rows"
    /\ fax.row < fax.height
    /\ LET rowBuffer == ReadChunkBytes(fax.bs.src, fax.bs.n, RowBytes(fax.width))
           bs1 == [fax.bs EXCEPT !.n = @ + Len(rowBuffer)]
       IN  fax' = IF Len(rowBuffer) # RowBytes(fax.width)
                  THEN FaxFail([fax EXCEPT !.bs = bs1], IFFPICTURE_BADFILE,
                               TRUE, FALSE)
                  ELSE FaxStoreLine(fax, FaxRowPixels(rowBuffer, fax.width), bs1)
    /\ UNCHANGED <<pic, heap, file, ret, rle, pix>>

\* the start of an MH or MR page once its line buffers are allocated: the
\* initial EOL is skipped; eol is the result of SkipToEOL
FaxSkipInitialEOL(f, eol, next) ==
    IF eol.r < 0
    THEN FaxFail([f EXCEPT !.bs = eol.bs], IFFPICTURE_BADFILE, TRUE, FALSE)
    ELSE [f EXCEPT !.bs = eol.bs, !.status = next]

\* Modified Huffman page: the line buffer and the initial EOL
FaxMHStart ==
    /\ fax.status = "mhstart"
    /\ \E lineBufferOk \in BOOLEAN :
         fax' = IF ~lineBufferOk
                THEN FaxFail(fax, IFFPICTURE_NOMEM, TRUE, FALSE)
                ELSE FaxSkipInitialEOL(fax, SkipToEOL(fax.bs), "mhrows")
    /\ UNCHANGED <<pic, heap, file, ret, rle, pix>>

\* a decoded line d stored as the next row and kept as the reference line
FaxStoreDecoded(f, d) ==
    [FaxStoreLine(f, d.output, d.bs) EXCEPT !.refLine = d.output]

\* one turn of the MH row loop after the EOL of the row (none for row 0)
FaxMHRowAfterEOL(f, eol) ==
    IF eol.r < 0 THEN FaxPadRows(f, eol.bs)
    ELSE FaxStoreDecoded(f, DecodeMHLine(eol.bs, f.width))

FaxMHRow ==
    /\ fax.status = "mhrows"
    /\ fax.row < fax.height
    /\ fax' = FaxMHRowAfterEOL(fax, IF fax.row > 0 THEN SkipToEOL(fax.bs)
                                    ELSE [r |-> 0, bs |-> fax.bs])
    /\ UNCHANGED <<pic, heap, file, ret, rle, pix>>

\* Modified READ page: the two line buffers, the initial EOL and the first
\* line, which is always coded in one dimension
FaxMRFirstLine(f) ==
    IF f.status = "failed" THEN f
    ELSE FaxStoreDecoded(f, DecodeMHLine(f.bs, f.width))

FaxMRStart ==
    /\ fax.status = "mrstart"
    /\ \E lineBufferOk \in BOOLEAN, refLineOk \in BOOLEAN :
         fax' = IF ~lineBufferOk \/ ~refLineOk
                THEN FaxFail(fax, IFFPICTURE_NOMEM, TRUE, FALSE)
                ELSE FaxMRFirstLine(FaxSkipInitialEOL(fax, SkipToEOL(fax.bs),
                                                      "mrrows"))
    /\ UNCHANGED <<pic, heap, file, ret, rle, pix>>

\* a line decoded by DecodeMHLine or DecodeMRLine in the MR row loop
FaxMRLineDecoded(f, d) ==
    IF d.r = RETURN_OK THEN FaxStoreDecoded(f, d)
    ELSE IF d.r = RETURN_FAIL THEN FaxPadRows(f, d.bs)
    ELSE [f EXCEPT !.status = "overrun", !.bs = d.bs]

\* the row after its tag bit: 0 for a 1D line, 1 for a 2D line
FaxMRRowAfterTag(f, tag, curlineOk) ==
    IF tag.bit < 0 THEN FaxPadRows(f, tag.bs)
    ELSE IF tag.bit = 0
    THEN FaxMRLineDecoded(f, DecodeMHLine(tag.bs, f.width))
    ELSE FaxMRLineDecoded(f, DecodeMRLine(tag.bs, f.refLine, f.width, curlineOk))

\* the row after its EOL
FaxMRRowAfterEOL(f, eol, curlineOk) ==
    IF eol.r < 0 THEN FaxPadRows(f, eol.bs)
    ELSE FaxMRRowAfterTag(f, ReadFaxBit(eol.bs), curlineOk)

FaxMRRow ==
    /\ fax.status = "mrrows"
    /\ fax.row < fax.height
    /\ \E curlineOk \in BOOLEAN :
         fax' = FaxMRRowAfterEOL(fax, SkipToEOL(fax.bs), curlineOk)
    /\ UNCHANGED <<pic, heap, file, ret, rle, pix>>

\* MMR pages are refused
FaxMMR ==
    /\ fax.status = "mmr"
    /\ fax' = FaxFail(fax, IFFPICTURE_UNSUPPORTED, TRUE, FALSE)
    /\ UNCHANGED <<pic, heap, file, ret, rle, pix>>

\* all rows written: the buffers are freed and DecodeFAXX returns RETURN_OK
FaxEnd ==
    /\ fax.status \in {"rows", "mhrows", "mrrows"}
    /\ fax.row >= fax.height
    /\ fax' = [fax EXCEPT !.status = "done", !.r = RETURN_OK]
    /\ UNCHANGED <<pic, heap, file, ret, rle, pix>>

FaxNext ==
    \/ FaxBegin
    \/ FaxRowNone
    \/ FaxMHStart
    \/ FaxMHRow
    \/ FaxMRStart
    \/ FaxMRRow
    \/ FaxMMR
    \/ FaxEnd

SpecFax == FaxInit /\ [][FaxNext]_vars

\* the rows written by the padding of DecodeFAXX, as RGB triples
PaddedPixels ==
    SubSeq(fax.rgb, (fax.padFrom * fax.width) + 1, fax.height * fax.width)

\* C4: when an MH or MR fax bitstream is exhausted after at least one scanline
\* has been decoded, the decode succeeds and every remaining scanline is
\* output as white pixels.
C4_ExhaustedFaxPadsWhite ==
    (/\ fax.status = "done"
     /\ fax.comp \in {FXCMPMH, FXCMPMR}
     /\ fax.bs.eof
     /\ fax.padFrom >= 1) =>
        /\ fax.r = RETURN_OK
        /\ Len(fax.rgb) = fax.width * fax.height
        /\ \A i \in 1..Len(PaddedPixels) : PaddedPixels[i] = <<255, 255, 255>>

(***************************************************************************)
(* Planar decoders DecodeILBM and DecodeEHB (image_decoder.c) and the      *)
(* output recommendation GetOptimalPNGConfig (image_analyzer.c)            *)
(***************************************************************************)
mskNone == 0
mskHasMask == 1
mskHasTransparentColor == 2

\* a plane row of the BODY is held sparsely: every byte is 0 but byte `at`
\* (from 0), which is `val`
RowByteAt(planeBuffer, byteIndex) ==
    IF byteIndex = planeBuffer.at THEN planeBuffer.val ELSE 0

\* UBYTE byteIndex = col / 8; UBYTE bitIndex = 7 - (col % 8);
\* bit = (planeBuffer[byteIndex] & bit_mask[bitIndex]) ? 1 : 0
PlaneBit(planeBuffer, col) ==
    BitOf(RowByteAt(planeBuffer, ToUBYTE(col \div 8)), 7 - (col % 8))

\* pixelIndices[col] after the first n planes: |= (1 << plane) in a UBYTE
RECURSIVE PixelIndexOf(_, _, _)
PixelIndexOf(planes, n, col) ==
    IF n = 0 THEN 0
    ELSE PixelIndexOf(planes, n - 1, col)
         + (IF n - 1 < 8 THEN PlaneBit(planes[n], col) * Pow2(n - 1) ELSE 0)

\* a lookup without the clamp to the last palette entry
ClampIndexNone(cmap, pixelIndex) ==
    pixelIndex

\* if (pixelIndex >= maxColors) pixelIndex = (UBYTE)(maxColors - 1)
ClampIndex(cmap, pixelIndex) ==
    IF pixelIndex >= cmap.numcolors THEN ToUBYTE(cmap.numcolors - 1)
    ELSE pixelIndex

\* v |= (v >> 4) for a 4-bit palette, whose low nibbles are all 0
Scale4Bit(cmap, v) ==
    IF cmap.is4Bit THEN v + (v \div 16) ELSE v

\* the RGB of palette entry pixelIndex with the 4-bit scaling applied
CmapLookup(cmap, pixelIndex) ==
    <<Scale4Bit(cmap, cmap.data[(pixelIndex * 3) + 1]),
      Scale4Bit(cmap, cmap.data[(pixelIndex * 3) + 2]),
      Scale4Bit(cmap, cmap.data[(pixelIndex * 3) + 3])>>

\* DecodeEHB: the clamped index is looked up, and halved when it is >= 32
EhbRGB(cmap, pixelIndex) ==
    IF pixelIndex >= 32
    THEN <<CmapLookup(cmap, pixelIndex)[1] \div 2,
           CmapLookup(cmap, pixelIndex)[2] \div 2,
           CmapLookup(cmap, pixelIndex)[3] \div 2>>
    ELSE CmapLookup(cmap, pixelIndex)

\* ReadCMAP: a palette is 4-bit when no byte has a bit in its low nibble
Is4Bit(data) ==
    \A i \in 1..Len(data) : data[i] % 16 = 0

\* Bounds and inputs of the planar decoders
MaxBodyRows == 4
MaxPixHeight == 2
MaxPlanes == 2
WideWidth == 2049
EhbPlanes == 6

\* palettes of n colours: entry i is (7i+1, 7i+2, 7i+3), or the 4-bit style
\* (16(i+1), 16(i+1), 16(i+1)) modulo 256
PaletteData(n, shifted) ==
    [k \in 1..(3 * n) |->
        IF shifted THEN (16 * (((k - 1) \div 3) + 1)) % 256
        ELSE ((7 * ((k - 1) \div 3)) + 1 + ((k - 1) % 3)) % 256]

PaletteOf(n, shifted) ==
    [numcolors |-> n, data |-> PaletteData(n, shifted),
     is4Bit |-> Is4Bit(PaletteData(n, shifted))]

\* plane rows for narrow pictures and for pictures wider than 2048 pixels
NarrowRows == {[at |-> 0, val |-> v] : v \in {0, 128, 64}}
WideRows == {[at |-> 0, val |-> 0], [at |-> 0, val |-> 128], [at |-> 256, val |-> 128]}
EhbRows == {[at |-> 0, val |-> 0], [at |-> 0, val |-> 128]}
\* masking and transparentColor of the BMHD
MaskingChoices ==
    {<<mskNone, 0>>, <<mskHasMask, 0>>, <<mskHasTransparentColor, 0>>,
     <<mskHasTransparentColor, 1>>, <<mskHasTransparentColor, 256>>}

\* a parsed picture handed to Decode, which has allocated pixelData
PixStart(isEHB, w, h, n, mt, cmap, body) ==
    [status |-> "begin", isEHB |-> isEHB, w |-> w, h |-> h, nPlanes |-> n,
     masking |-> mt[1], transparentColor |-> mt[2], cmap |-> cmap,
     body |-> body, pos |-> 0, row |-> 0, idx |-> <<>>, rgb |-> <<>>,
     paletteIndices |-> "null", pixelData |-> "decode", hasAlpha |-> FALSE,
     err |-> IFFPICTURE_OK, r |-> RETURN_OK,
     config |-> [num_trans |-> 0, trans |-> 0, num_palette |-> 0]]

PixInit ==
    /\ pix \in {PixStart(FALSE, 2, h, n, mt, cm, b) :
                    h \in 1..MaxPixHeight, n \in 1..MaxPlanes,
                    mt \in MaskingChoices,
                    cm \in {PaletteOf(2, FALSE), PaletteOf(2, TRUE),
                            PaletteOf(4, FALSE)},
                    b \in SeqsUpTo(NarrowRows, MaxBodyRows)}
          \cup {PixStart(FALSE, WideWidth, 1, n, <<mskNone, 0>>,
                         PaletteOf(4, FALSE), b) :
                    n \in 1..MaxPlanes, b \in SeqsUpTo(WideRows, MaxPlanes)}
          \cup {PixStart(TRUE, 2, 1, n, <<mskNone, 0>>, PaletteOf(nc, FALSE), b) :
                    n \in {MaxPlanes, EhbPlanes}, nc \in {32, 64},
                    b \in SeqsUpTo(EhbRows, EhbPlanes)}
    /\ pic = PicIdle /\ heap = HeapIdle /\ file = FileIdle /\ ret = RetIdle
    /\ rle = RleIdle /\ fax = FaxIdle

\* a failure return of a planar decoder with the buffer fields it leaves
PixFail(p, error, indices, pixels) ==
    [p EXCEPT !.status = "failed", !.r = RETURN_FAIL, !.err = error,
              !.paletteIndices = indices, !.pixelData = pixels]

\* DecodeILBM up to its row loop: paletteIndices, a pixelData of its own
\* (replacing the buffer Decode allocated), planeBuffer and alphaValues
IlbmBegin ==
    /\ pix.status = "begin"
    /\ ~pix.isEHB
    /\ \E indicesOk \in BOOLEAN, pixelsOk \in BOOLEAN, planeOk \in BOOLEAN,
          alphaOk \in BOOLEAN :
         pix' = IF ~indicesOk
                THEN PixFail(pix, IFFPICTURE_NOMEM, "null", pix.pixelData)
                ELSE IF ~pixelsOk
                THEN PixFail([pix EXCEPT !.hasAlpha = (pix.masking = mskHasMask)],
                             IFFPICTURE_NOMEM, "freed", "null")
                ELSE IF ~planeOk \/ (pix.masking = mskHasMask /\ ~alphaOk)
                THEN PixFail([pix EXCEPT !.hasAlpha = (pix.masking = mskHasMask)],
                             IFFPICTURE_NOMEM, "live", "own")
                ELSE [pix EXCEPT !.status = "rows", !.paletteIndices = "live",
                                 !.pixelData = "own",
                                 !.hasAlpha = (pix.masking = mskHasMask)]
    /\ UNCHANGED <<pic, heap, file, ret, rle, fax>>

\* DecodeEHB up to its row loop: six planes are required
EhbBegin ==
    /\ pix.status = "begin"
    /\ pix.isEHB
    /\ \E planeOk \in BOOLEAN :
         pix' = IF pix.nPlanes # 6
                THEN PixFail(pix, IFFPICTURE_INVALID, pix.paletteIndices,
                             pix.pixelData)
                ELSE IF ~planeOk
                THEN PixFail(pix, IFFPICTURE_NOMEM, pix.paletteIndices,
                             pix.pixelData)
                ELSE [pix EXCEPT !.status = "rows"]
    /\ UNCHANGED <<pic, heap, file, ret, rle, fax>>

\* the plane rows ReadChunkBytes delivers for one picture row: n of them, or
\* fewer when the BODY ends
RowPlanes(p, n) ==
    ReadChunkBytes(p.body, p.pos, n)

\* the converted pixels of one ILBM row: clamped indices, their RGB and, with
\* a mask plane, the alpha value of the mask bit
IlbmRowIndices(p, planes) ==
    [c \in 1..p.w |-> ClampIndex(p.cmap, PixelIndexOf(planes, p.nPlanes, c - 1))]

IlbmRowPixels(p, planes) ==
    [c \in 1..p.w |->
        IF p.masking = mskHasMask
        THEN Append(CmapLookup(p.cmap,
                               ClampIndex(p.cmap,
                                          PixelIndexOf(planes, p.nPlanes, c - 1))),
                    IF PlaneBit(planes[p.nPlanes + 1], c - 1) = 1 THEN 255 ELSE 0)
        ELSE CmapLookup(p.cmap,
                        ClampIndex(p.cmap, PixelIndexOf(planes, p.nPlanes, c - 1)))]

\* one turn of the row loop of DecodeILBM
IlbmRowRead(p, planes, need) ==
    IF Len(planes) # need
    THEN PixFail([p EXCEPT !.pos = @ + Len(planes)], IFFPICTURE_BADFILE,
                 p.paletteIndices, p.pixelData)
    ELSE [p EXCEPT !.pos = @ + need, !.row = @ + 1,
                   !.idx = @ \o IlbmRowIndices(p, planes),
                   !.rgb = @ \o IlbmRowPixels(p, planes)]

IlbmRow ==
    /\ pix.status = "rows"
    /\ ~pix.isEHB
    /\ pix.row < pix.h
    /\ \E pixelIndicesOk \in BOOLEAN :
         pix' = IF ~pixelIndicesOk
                THEN PixFail(pix, IFFPICTURE_NOMEM, pix.paletteIndices,
                             pix.pixelData)
                ELSE IlbmRowRead(pix,
                        RowPlanes(pix, pix.nPlanes
                                  + (IF pix.masking = mskHasMask THEN 1 ELSE 0)),
                        pix.nPlanes + (IF pix.masking = mskHasMask THEN 1 ELSE 0))
    /\ UNCHANGED <<pic, heap, file, ret, rle, fax>>

\* one turn of the row loop of DecodeEHB
EhbRowRead(p, planes) ==
    IF Len(planes) # p.nPlanes
    THEN PixFail([p EXCEPT !.pos = @ + Len(planes)], IFFPICTURE_BADFILE,
                 p.paletteIndices, p.pixelData)
    ELSE [p EXCEPT !.pos = @ + p.nPlanes, !.row = @ + 1,
                   !.rgb = @ \o [c \in 1..p.w |->
                        EhbRGB(p.cmap,
                               ClampIndex(p.cmap,
                                          PixelIndexOf(planes, p.nPlanes, c - 1)))]]

EhbRow ==
    /\ pix.status = "rows"
    /\ pix.isEHB
    /\ pix.row < pix.h
    /\ \E pixelIndicesOk \in BOOLEAN :
         pix' = IF ~pixelIndicesOk
                THEN PixFail(pix, IFFPICTURE_NOMEM, pix.paletteIndices,
                             pix.pixelData)
                ELSE EhbRowRead(pix, RowPlanes(pix, pix.nPlanes))
    /\ UNCHANGED <<pic, heap, file, ret, rle, fax>>

\* all rows converted: the decoder returns RETURN_OK
PixEnd ==
    /\ pix.status = "rows"
    /\ pix.row >= pix.h
    /\ pix' = [pix EXCEPT !.status = "done", !.r = RETURN_OK]
    /\ UNCHANGED <<pic, heap, file, ret, rle, fax>>

\* a test of the first palette entry alone
IsGrayscaleFirstEntry(cmap) ==
    /\ CmapLookup(cmap, 0)[1] = CmapLookup(cmap, 0)[2]
    /\ CmapLookup(cmap, 0)[2] = CmapLookup(cmap, 0)[3]

\* AnalyzeFormat: an indexed picture is grayscale when every palette entry,
\* 4-bit entries expanded, has equal R, G and B
IsGrayscale(cmap) ==
    \A i \in 0..(cmap.numcolors - 1) :
        /\ CmapLookup(cmap, i)[1] = CmapLookup(cmap, i)[2]
        /\ CmapLookup(cmap, i)[2] = CmapLookup(cmap, i)[3]

\* the search of GetOptimalPNGConfig through picture->paletteIndices, a
\* buffer of w * h bytes cleared when allocated, for (UBYTE)transparentColor
TransparentColorUsed(p) ==
    \E i \in 1..(p.w * p.h) :
        (IF i <= Len(p.idx) THEN p.idx[i] ELSE 0) = ToUBYTE(p.transparentColor)

\* GetOptimalPNGConfig for a planar picture with a palette.  A freed
\* paletteIndices is still searched: what the search finds there is freedUsed.
GetOptimalPNGConfig(p, opaque, paletteOk, transOk, freedUsed) ==
    IF p.isEHB
    THEN [p EXCEPT !.status = "configured",
                   !.config = [num_trans |-> 0, trans |-> 0, num_palette |-> 0]]
    ELSE IF ~IsGrayscale(p.cmap) /\ ~paletteOk
    THEN [p EXCEPT !.status = "noconfig", !.err = IFFPICTURE_NOMEM]
    ELSE IF /\ p.masking = mskHasTransparentColor
            /\ p.paletteIndices # "null"
            /\ IF p.paletteIndices = "freed" THEN freedUsed
               ELSE TransparentColorUsed(p)
            /\ ~(opaque /\ ToUBYTE(p.transparentColor) = 0)
    THEN IF ~transOk
         THEN [p EXCEPT !.status = "noconfig", !.err = IFFPICTURE_NOMEM]
         ELSE [p EXCEPT !.status = "configured",
                        !.config = [num_trans |-> 1,
                                    trans |-> ToUBYTE(p.transparentColor),
                                    num_palette |-> IF IsGrayscale(p.cmap) THEN 0
                                                    ELSE p.cmap.numcolors]]
    ELSE [p EXCEPT !.status = "configured",
                   !.config = [num_trans |-> 0, trans |-> 0,
                               num_palette |-> IF IsGrayscale(p.cmap) THEN 0
                                               ELSE p.cmap.numcolors]]

\* the recommendation asked for before, after or after a failed decode
PngConfig ==
    /\ pix.status \in {"begin", "done", "failed"}
    /\ \E opaque \in BOOLEAN, paletteOk \in BOOLEAN, transOk \in BOOLEAN,
          freedUsed \in BOOLEAN :
         pix' = GetOptimalPNGConfig(pix, opaque, paletteOk, transOk, freedUsed)
    /\ UNCHANGED <<pic, heap, file, ret, rle, fax>>

PixNext ==
    \/ IlbmBegin
    \/ EhbBegin
    \/ IlbmRow
    \/ EhbRow
    \/ PixEnd
    \/ PngConfig

SpecPix == PixInit /\ [][PixNext]_vars

\* the palette index the planes of picture row `row` hold for column c: bit p
\* of the index is bit 7 - (c mod 8) of byte floor(c / 8) of plane p's row
RECURSIVE IndexInPlanes(_, _, _, _)
IndexInPlanes(body, first, n, c) ==
    IF n = 0 THEN 0
    ELSE IndexInPlanes(body, first, n - 1, c)
         + (BitOf(RowByteAt(body[first + n], c \div 8), 7 - (c % 8)) * Pow2(n - 1))

\* the plane rows one picture row takes in the BODY
RowStride(p) ==
    p.nPlanes + (IF p.masking = mskHasMask THEN 1 ELSE 0)

\* C9: for an interleaved-plane image of any width with N planes the palette
\* index of the pixel in column c takes as its bit p the bit 7 - (c mod 8) of
\* byte floor(c / 8) of plane p's row, and the output RGB is the palette entry
\* at that index.
C9_PlanarBitExtraction ==
    (pix.status = "done" /\ ~pix.isEHB) =>
        \A row \in 0..(pix.h - 1) : \A c \in 0..(pix.w - 1) :
            /\ pix.idx[(row * pix.w) + c + 1]
                 = IndexInPlanes(pix.body, row * RowStride(pix), pix.nPlanes, c)
            /\ SubSeq(pix.rgb[(row * pix.w) + c + 1], 1, 3)
                 = CmapLookup(pix.cmap,
                              IndexInPlanes(pix.body, row * RowStride(pix),
                                            pix.nPlanes, c))

\* C3: in Extra-Half-Brite decoding with a palette of 32 entries every pixel
\* index i in 32..63 is output as palette entry i - 32 with each RGB component
\* shifted right by one bit.
C3_HalfBriteFolding ==
    (pix.status = "done" /\ pix.isEHB /\ pix.cmap.numcolors = 32) =>
        \A c \in 0..(pix.w - 1) :
            IndexInPlanes(pix.body, 0, pix.nPlanes, c) \in 32..63 =>
                pix.rgb[c + 1]
                  = <<pix.cmap.data[((IndexInPlanes(pix.body, 0, pix.nPlanes, c) - 32) * 3) + 1] \div 2,
                      pix.cmap.data[((IndexInPlanes(pix.body, 0, pix.nPlanes, c) - 32) * 3) + 2] \div 2,
                      pix.cmap.data[((IndexInPlanes(pix.body, 0, pix.nPlanes, c) - 32) * 3) + 3] \div 2>>

\* C6: the recommended output format carries a transparent index only if the
\* header's transparent-colour index occurs in the decoded palette-index buffer.
C6_TransparentIndexOccurs ==
    (pix.status = "configured" /\ pix.config.num_trans > 0) =>
        /\ pix.paletteIndices = "live"
        /\ \E i \in 1..Len(pix.idx) : pix.idx[i] = pix.transparentColor

(***************************************************************************)
(* The picture lifecycle (iffpicture.c): AllocIFFPicture,                  *)
(* InitIFFPictureasDOS, OpenIFFPicture, ParseIFFPicture, Decode,           *)
(* CloseIFFPicture and FreeIFFPicture, called in any order on one picture. *)
(*                                                                         *)
(* pic   the fields of struct IFFPicture; a pointer to a buffer is the     *)
(*       number of its block in heap, 0 being NULL; pic.pc is the position *)
(*       inside a running ParseIFFPicture call                             *)
(* heap  one entry for every AllocMem block handed to the picture          *)
(* file  the container behind the stream: the top-level chunk, the form    *)
(*       type, the chunk ids in file order, the header fields              *)
(* ret   the last call that returned and its result                        *)
(***************************************************************************)
cmpNone == 0
cmpByteRun1 == 1

\* what ParseIFF returns: 0, or one of the iffparse.library error codes
IFF_OKAY == "0"
IFFERR_EOF == "IFFERR_EOF"
IFFERR_EOC == "IFFERR_EOC"
IFFERR_NOMEM == "IFFERR_NOMEM"
IFFERR_MANGLED == "IFFERR_MANGLED"

\* the form types ParseIFFPicture registers chunks for
SupportedForms == {"ILBM", "PBM ", "ACBM", "RGBN", "RGB8", "DEEP", "YUVN", "FAXX"}

\* the chunk PropChunk registers first, whose failure is checked
HeaderChunk(formType) ==
    IF formType = "FAXX" THEN "FXHD"
    ELSE IF formType = "DEEP" THEN "DGBL"
    ELSE IF formType = "YUVN" THEN "YCHD"
    ELSE "BMHD"

\* the chunks registered with PropChunk (those a Read function looks up)
PropChunks(formType) ==
    IF formType = "FAXX" THEN {"FXHD"}
    ELSE IF formType = "DEEP" THEN {"DGBL", "DPEL"}
    ELSE IF formType = "YUVN" THEN {"YCHD"}
    ELSE IF formType \in {"ILBM", "PBM ", "ACBM"} THEN {"BMHD", "CMAP", "CAMG"}
    ELSE {"BMHD", "CMAP"}

\* the chunks registered with StopChunk
StopChunks(formType) ==
    IF formType = "FAXX" THEN {"PAGE"}
    ELSE IF formType = "DEEP" THEN {"DBOD"}
    ELSE IF formType = "YUVN" THEN {"DATY", "DATA"}
    ELSE IF formType = "ACBM" THEN {"ABIT"}
    ELSE {"BODY"}

\* AllocMem handing out a new block, FreeMem releasing block p
AllocBlock(h) ==
    Append(h, "live")

FreeBlock(h, p) ==
    [h EXCEPT ![p] = IF @ = "live" THEN "freed" ELSE "twice"]

\* the picture AllocIFFPicture returns
AllocIFFPicture ==
    [released |-> FALSE, iff |-> "null", stream |-> FALSE, wasInit |-> FALSE,
     isLoaded |-> FALSE, isDecoded |-> FALSE, formtype |-> "none",
     bmhd |-> FALSE, ychd |-> FALSE, cmap |-> FALSE,
     isHAM |-> FALSE, isEHB |-> FALSE, hasAlpha |-> FALSE,
     pixelData |-> 0, pixelDataSize |-> 0, paletteIndices |-> 0,
     lastError |-> IFFPICTURE_OK,
     pc |-> "idle", parsed |-> FALSE, scanPos |-> 0, scanError |-> IFF_OKAY,
     props |-> {}, consumed |-> FALSE]

\* SetIFFPictureError
SetIFFPictureError(p, error) ==
    [p EXCEPT !.lastError = error]

(***************************************************************************)
(* The containers the lifecycle is run on                                  *)
(***************************************************************************)
MaxChunks == 4
MaxBlocks == 6

\* sequences over S without repetition, of length at most n
RECURSIVE SeqsNoRepeat(_, _)
SeqsNoRepeat(S, n) ==
    IF n = 0 THEN {<<>>}
    ELSE {<<>>} \cup UNION {{<<x>> \o t : t \in SeqsNoRepeat(S \ {x}, n - 1)} : x \in S}

HasChunk(chunks, id) ==
    \E i \in 1..Len(chunks) : chunks[i] = id

\* the chunk ids a file of a form type is built from; CMAP is not
\* registered for FAXX, DEEP has no palette
FileChunkIds(formType) ==
    IF formType = "ILBM" THEN {"BMHD", "CMAP", "CAMG", "BODY"}
    ELSE IF formType = "FAXX" THEN {"FXHD", "CMAP", "PAGE"}
    ELSE (PropChunks(formType) \cup StopChunks(formType)) \ {"CAMG"}

\* the header fields, which vary only in a file that has the header chunk;
\* the compression varies where a decoder tests it before reading (ACBM,
\* FAXX), the masking where a decoder sizes a buffer by it (ILBM)
NoHeader == [nPlanes |-> 0, compression |-> cmpNone, masking |-> mskNone]

HeaderChoices(formType, chunks) ==
    IF ~HasChunk(chunks, HeaderChunk(formType)) THEN {NoHeader}
    ELSE IF formType = "FAXX"
    THEN {[nPlanes |-> 1, compression |-> c, masking |-> mskNone] :
            c \in {FXCMPNONE, FXCMPMH, FXCMPMMR}}
    ELSE {[nPlanes |-> n, compression |-> c, masking |-> m] :
            n \in IF formType = "ILBM" THEN {4, 6, 12, 24} ELSE {6, 12, 24},
            c \in IF formType = "ACBM" THEN {cmpNone, cmpByteRun1} ELSE {cmpByteRun1},
            m \in IF formType \in {"ILBM", "PBM "} THEN {mskNone, mskHasMask}
                  ELSE {mskNone}}

\* the registered chunk of a file whose size is wrong, if any: the header
\* chunk (shorter than its structure) or the CMAP (not a multiple of 3);
\* varied for the form types PBM, FAXX (header) and PBM, RGBN, ACBM (CMAP)
MalformedChoices(formType, chunks) ==
    {"none"}
    \cup (IF HasChunk(chunks, HeaderChunk(formType)) /\ formType \in {"PBM ", "FAXX"}
          THEN {"header"} ELSE {})
    \cup (IF HasChunk(chunks, "CMAP") /\ formType \in {"PBM ", "RGBN", "ACBM"}
          THEN {"CMAP"} ELSE {})
    \cup (IF HasChunk(chunks, "YCHD") /\ formType = "YUVN"
          THEN {"ychd_Compress"} ELSE {})

FilesWith(formType, chunks) ==
    {[top |-> "FORM", formtype |-> formType, chunks |-> chunks, hdr |-> h,
      viewmode |-> v, bodyOk |-> b, tail |-> t, malformed |-> m] :
        h \in HeaderChoices(formType, chunks),
        m \in MalformedChoices(formType, chunks),
        v \in IF HasChunk(chunks, "CAMG") THEN {"none", "HAM", "EHB"} ELSE {"none"},
        b \in IF \E id \in StopChunks(formType) : HasChunk(chunks, id)
              THEN BOOLEAN ELSE {FALSE},
        t \in IF \E id \in StopChunks(formType) : HasChunk(chunks, id)
              THEN {IFFERR_EOF} ELSE {IFFERR_EOF, IFFERR_MANGLED}}

\* a file that is no IFF file, a CAT, and a FORM of a type not supported
OtherFiles ==
    {[top |-> t, formtype |-> f, chunks |-> <<>>, hdr |-> NoHeader,
      viewmode |-> "none", bodyOk |-> FALSE, tail |-> IFFERR_EOF,
      malformed |-> "none"] :
        t \in {"junk", "CAT ", "FORM"}, f \in {"ANIM"}}

Files ==
    OtherFiles \cup
    UNION {UNION {FilesWith(f, c) : c \in SeqsNoRepeat(FileChunkIds(f), MaxChunks)} :
             f \in SupportedForms}

(***************************************************************************)
(* InitIFFPictureasDOS, the caller's stream assignment, OpenIFFPicture     *)
(***************************************************************************)
\* a call that has returned: the picture, the heap and the result
Returned(p, h, r) ==
    [p |-> p, h |-> h, r |-> r]

Failed(p, h, error) ==
    Returned(SetIFFPictureError(p, error), h, RETURN_FAIL)

\* one handle is set up per picture, as main does
InitIFFPictureasDOS ==
    /\ ~pic.released /\ pic.pc = "idle" /\ ~pic.wasInit
    /\ \E iffOk \in BOOLEAN :
         pic' = IF iffOk THEN [pic EXCEPT !.iff = "init", !.wasInit = TRUE]
                ELSE SetIFFPictureError(pic, IFFPICTURE_NOMEM)
    /\ ret' = [call |-> "InitIFFPictureasDOS", result |-> RETURN_OK]
    /\ UNCHANGED <<heap, file, rle, fax, pix>>

\* picture->iff->iff_Stream = filehandle
SetStream ==
    /\ ~pic.released /\ pic.pc = "idle" /\ pic.iff = "init" /\ ~pic.stream
    /\ pic' = [pic EXCEPT !.stream = TRUE]
    /\ UNCHANGED <<heap, file, ret, rle, fax, pix>>

OpenIFFPictureCall(p, openOk) ==
    IF p.iff = "null" THEN Failed(p, <<>>, IFFPICTURE_INVALID)
    ELSE IF ~p.stream THEN Failed(p, <<>>, IFFPICTURE_INVALID)
    ELSE IF ~openOk THEN Failed(p, <<>>, IFFPICTURE_BADFILE)
    ELSE Returned([p EXCEPT !.iff = "open", !.isLoaded = TRUE], <<>>, RETURN_OK)

OpenIFFPicture ==
    /\ ~pic.released /\ pic.pc = "idle" /\ pic.iff # "open"
    /\ \E openOk \in BOOLEAN :
         /\ pic' = OpenIFFPictureCall(pic, openOk).p
         /\ ret' = [call |-> "OpenIFFPicture",
                    result |-> OpenIFFPictureCall(pic, openOk).r]
    /\ UNCHANGED <<heap, file, rle, fax, pix>>

(***************************************************************************)
(* ParseIFFPicture, in three steps: the FORM step and the chunk            *)
(* registration, the scan (one chunk per step), the property extraction    *)
(***************************************************************************)
\* ParseIFF(IFFPARSE_STEP), CurrentChunk and the registration of the chunks
ParseBegin(p, registered) ==
    IF p.iff = "null" THEN Failed(p, <<>>, IFFPICTURE_INVALID)
    ELSE IF p.iff # "open" \/ file.top = "junk"
    THEN Failed(p, <<>>, IFFPICTURE_BADFILE)
    ELSE IF file.top # "FORM" THEN Failed(p, <<>>, IFFPICTURE_BADFILE)
    ELSE IF file.formtype \notin SupportedForms
    THEN Failed([p EXCEPT !.formtype = file.formtype], <<>>, IFFPICTURE_UNSUPPORTED)
    ELSE IF ~registered
    THEN Failed([p EXCEPT !.formtype = file.formtype], <<>>, IFFPICTURE_ERROR)
    ELSE Returned([p EXCEPT !.formtype = file.formtype, !.pc = "scan"],
                  <<>>, RETURN_OK)

\* the call up to the scan; it returns here when it has failed
ParseIFFPicture ==
    /\ ~pic.released /\ pic.pc = "idle" /\ ~pic.parsed
    /\ \E registered \in BOOLEAN :
         /\ pic' = IF ParseBegin(pic, registered).r = RETURN_OK
                   THEN ParseBegin(pic, registered).p
                   ELSE [ParseBegin(pic, registered).p EXCEPT !.parsed = TRUE]
         /\ ret' = IF ParseBegin(pic, registered).r = RETURN_OK THEN ret
                   ELSE [call |-> "ParseIFFPicture", result |-> RETURN_FAIL]
    /\ UNCHANGED <<heap, file, rle, fax, pix>>

\* ParseIFF(IFFPARSE_SCAN) at one chunk: it returns 0 at a stop chunk,
\* stores a property chunk and skips any other chunk
ScanChunkAt(p, id, memOk) ==
    IF id \in StopChunks(p.formtype)
    THEN [p EXCEPT !.scanPos = @ + 1, !.scanError = IFF_OKAY, !.pc = "extract"]
    ELSE IF id \in PropChunks(p.formtype)
    THEN IF memOk THEN [p EXCEPT !.scanPos = @ + 1, !.props = @ \cup {id}]
         ELSE [p EXCEPT !.scanError = IFFERR_NOMEM, !.pc = "extract"]
    ELSE [p EXCEPT !.scanPos = @ + 1]

\* at the end of the stream it returns IFFERR_EOF, or the error of a
\* stream that is cut short
ScanChunk(p, memOk) ==
    IF p.scanPos = Len(file.chunks)
    THEN [p EXCEPT !.scanError = file.tail, !.pc = "extract"]
    ELSE ScanChunkAt(p, file.chunks[p.scanPos + 1], memOk)

ParseScan ==
    /\ pic.pc = "scan"
    /\ \E memOk \in BOOLEAN : pic' = ScanChunk(pic, memOk)
    /\ UNCHANGED <<heap, file, ret, rle, fax, pix>>

\* a test that takes the end of the stream for a stop
ScanFailedExceptEOF(error) ==
    error \notin {IFF_OKAY, IFFERR_EOC, IFFERR_EOF}

\* the test on the result of the scan
ScanFailed(error) ==
    error # IFF_OKAY /\ error # IFFERR_EOC

\* ReadBODY, ReadABIT, ReadPAGE, ReadDBOD: the current chunk must be the
\* data chunk the scan stopped at
ReadStopChunk(p, id) ==
    IF p.iff = "null" THEN Failed(p, <<>>, IFFPICTURE_INVALID)
    ELSE IF p.scanError # IFF_OKAY \/ p.scanPos = 0
    THEN Failed(p, <<>>, IFFPICTURE_BADFILE)
    ELSE IF file.chunks[p.scanPos] # id THEN Failed(p, <<>>, IFFPICTURE_BADFILE)
    ELSE Returned(p, <<>>, RETURN_OK)

\* ReadBMHD, ReadYCHD, ReadFXHD, ReadDGBL, ReadDPEL: FindProp, the test of
\* the chunk size and the allocation of the header structure
ReadHeader(p, id, allocOk) ==
    IF id \notin p.props THEN Failed(p, <<>>, IFFPICTURE_BADFILE)
    ELSE IF id = HeaderChunk(p.formtype) /\ file.malformed = "header"
    THEN Failed(p, <<>>, IFFPICTURE_BADFILE)
    ELSE IF ~allocOk THEN Failed(p, <<>>, IFFPICTURE_NOMEM)
    ELSE Returned(p, <<>>, RETURN_OK)

\* ReadCMAP, whose result ParseIFFPicture ignores
ReadCMAP(p, allocOk) ==
    IF "CMAP" \notin p.props THEN p
    ELSE IF file.malformed = "CMAP" THEN SetIFFPictureError(p, IFFPICTURE_BADFILE)
    ELSE IF ~allocOk THEN SetIFFPictureError(p, IFFPICTURE_NOMEM)
    ELSE [p EXCEPT !.cmap = TRUE]

\* ReadCAMG: the HAM and EHB bits of the viewport modes
ReadCAMG(p) ==
    IF "CAMG" \notin p.props THEN p
    ELSE [p EXCEPT !.isHAM = @ \/ file.viewmode = "HAM",
                   !.isEHB = @ \/ file.viewmode = "EHB"]

\* FAXX: FXHD (which also creates a BitMapHeader), the default black and
\* white palette, PAGE; a failure after FXHD releases what was created
ExtractFAXX(p, fails) ==
    IF ReadHeader(p, "FXHD", fails # "first").r # RETURN_OK
    THEN ReadHeader(p, "FXHD", fails # "first")
    ELSE IF ~p.cmap /\ fails = "second"
    THEN Failed([p EXCEPT !.bmhd = FALSE], <<>>, IFFPICTURE_NOMEM)
    ELSE IF ReadStopChunk(p, "PAGE").r # RETURN_OK
    THEN Returned([ReadStopChunk(p, "PAGE").p EXCEPT !.bmhd = FALSE, !.cmap = FALSE],
                  <<>>, RETURN_FAIL)
    ELSE Returned([p EXCEPT !.bmhd = TRUE, !.cmap = TRUE], <<>>, RETURN_OK)

\* YUVN: only YCHD; the data chunks are left to the decoder.  ReadYCHD
\* stores the header before it rejects a compressed picture
ExtractYUVN(p, fails) ==
    IF ReadHeader(p, "YCHD", fails # "first").r # RETURN_OK
    THEN ReadHeader(p, "YCHD", fails # "first")
    ELSE IF file.malformed = "ychd_Compress"
    THEN Failed([p EXCEPT !.ychd = TRUE], <<>>, IFFPICTURE_UNSUPPORTED)
    ELSE Returned([p EXCEPT !.ychd = TRUE], <<>>, RETURN_OK)

\* DEEP: DGBL, DPEL, DBOD; no BitMapHeader is created
ExtractDEEP(p, fails) ==
    IF ReadHeader(p, "DGBL", fails # "first").r # RETURN_OK
    THEN ReadHeader(p, "DGBL", fails # "first")
    ELSE IF ReadHeader(p, "DPEL", fails # "second").r # RETURN_OK
    THEN ReadHeader(p, "DPEL", fails # "second")
    ELSE ReadStopChunk(p, "DBOD")

\* ILBM, PBM, RGBN, RGB8, ACBM: BMHD, CMAP, CAMG, then BODY or ABIT
ExtractBMHD(p, fails) ==
    IF ReadHeader(p, "BMHD", fails # "first").r # RETURN_OK
    THEN ReadHeader(p, "BMHD", fails # "first")
    ELSE ReadStopChunk(ReadCAMG(ReadCMAP([p EXCEPT !.bmhd = TRUE,
                                                   !.hasAlpha = (file.hdr.masking = mskHasMask)],
                                         fails # "second")),
                       IF p.formtype = "ACBM" THEN "ABIT" ELSE "BODY")

\* the rest of ParseIFFPicture after the scan
ParseFinish(p, fails) ==
    IF ScanFailed(p.scanError) THEN Failed(p, <<>>, IFFPICTURE_BADFILE)
    ELSE IF p.formtype = "FAXX" THEN ExtractFAXX(p, fails)
    ELSE IF p.formtype = "YUVN" THEN ExtractYUVN(p, fails)
    ELSE IF p.formtype = "DEEP" THEN ExtractDEEP(p, fails)
    ELSE ExtractBMHD(p, fails)

\* fails: the allocation of the extraction that returns NULL, if any
ParseExtract ==
    /\ pic.pc = "extract"
    /\ \E fails \in {"none", "first", "second"} :
         /\ pic' = [ParseFinish(pic, fails).p EXCEPT
                        !.isLoaded = @ \/ ParseFinish(pic, fails).r = RETURN_OK,
                        !.pc = "idle", !.parsed = TRUE]
         /\ ret' = [call |-> "ParseIFFPicture", result |-> ParseFinish(pic, fails).r]
    /\ UNCHANGED <<heap, file, rle, fax, pix>>

(***************************************************************************)
(* Decode: the state checks, the pixel buffer, the decoder selected by the *)
(* form type and the mode flags, the cleanup after a failed decoder.       *)
(* A decoder is followed along its exit paths: its checks, its             *)
(* allocations, the reading of the data chunk.                             *)
(***************************************************************************)
\* the AllocMem call of a Decode call that returns NULL, if any: the pixel
\* buffer of Decode, the index buffer of a decoder, the pixel buffer
\* DecodeILBM allocates itself, a scratch buffer
AllocSites == {"none", "pixelData", "paletteIndices", "decoderPixelData", "scratch"}

DecodeFail(s, error) ==
    [s EXCEPT !.p.lastError = error, !.r = RETURN_FAIL]

AllocPixelData(s) ==
    [s EXCEPT !.h = AllocBlock(@), !.p.pixelData = Len(s.h) + 1]

AllocPaletteIndices(s) ==
    [s EXCEPT !.h = AllocBlock(@), !.p.paletteIndices = Len(s.h) + 1]

\* whether ReadChunkBytes delivers every row: the handle is open and stands
\* at the start of a complete data chunk; reading through a NULL handle has
\* no defined outcome
BodyRead(p, nullRead) ==
    IF p.iff = "null" THEN nullRead
    ELSE /\ p.iff = "open" /\ p.scanError = IFF_OKAY /\ p.scanPos > 0
         /\ file.bodyOk /\ ~p.consumed

\* the part every decoder ends with: scratch buffers, then the rows
DecodeRows(s, fails, readOk) ==
    IF fails = "scratch" THEN DecodeFail(s, IFFPICTURE_NOMEM)
    ELSE IF ~readOk THEN DecodeFail([s EXCEPT !.p.consumed = TRUE], IFFPICTURE_BADFILE)
    ELSE [s EXCEPT !.p.consumed = TRUE]

DecodeHAM(s, fails, readOk) ==
    IF ~s.p.bmhd THEN DecodeFail(s, IFFPICTURE_INVALID)
    ELSE IF file.hdr.nPlanes < 6 THEN DecodeFail(s, IFFPICTURE_INVALID)
    ELSE DecodeRows(s, fails, readOk)

DecodeEHB(s, fails, readOk) ==
    IF ~s.p.bmhd \/ ~s.p.cmap THEN DecodeFail(s, IFFPICTURE_INVALID)
    ELSE IF file.hdr.nPlanes # EhbPlanes THEN DecodeFail(s, IFFPICTURE_INVALID)
    ELSE DecodeRows(s, fails, readOk)

DecodeDEEP(s, fails, readOk) ==
    IF ~s.p.bmhd THEN DecodeFail(s, IFFPICTURE_INVALID)
    ELSE IF file.hdr.nPlanes % 3 # 0 THEN DecodeFail(s, IFFPICTURE_INVALID)
    ELSE DecodeRows(s, fails, readOk)

DecodePBM(s, fails, readOk) ==
    IF ~s.p.bmhd THEN DecodeFail(s, IFFPICTURE_INVALID)
    ELSE IF ~s.p.cmap THEN DecodeFail(s, IFFPICTURE_INVALID)
    ELSE DecodeRows(s, fails, readOk)

DecodeRGBN(s, fails, readOk) ==
    IF ~s.p.bmhd THEN DecodeFail(s, IFFPICTURE_INVALID)
    ELSE IF file.hdr.nPlanes < 12 \/ file.hdr.nPlanes > 13
    THEN DecodeFail(s, IFFPICTURE_INVALID)
    ELSE DecodeRows(s, fails, readOk)

DecodeRGB8(s, fails, readOk) ==
    IF ~s.p.bmhd THEN DecodeFail(s, IFFPICTURE_INVALID)
    ELSE IF file.hdr.nPlanes < 24 \/ file.hdr.nPlanes > 25
    THEN DecodeFail(s, IFFPICTURE_INVALID)
    ELSE DecodeRows(s, fails, readOk)

DecodeACBM(s, fails, readOk) ==
    IF ~s.p.bmhd \/ ~s.p.cmap THEN DecodeFail(s, IFFPICTURE_INVALID)
    ELSE IF file.hdr.compression # cmpNone THEN DecodeFail(s, IFFPICTURE_INVALID)
    ELSE DecodeRows(s, fails, readOk)

\* DecodeYUVN: a decoder that reads its data chunks into the pixel buffer
DecodeYUVN(s, fails, readOk) ==
    IF ~s.p.ychd THEN DecodeFail(s, IFFPICTURE_INVALID)
    ELSE DecodeRows(s, fails, readOk)

\* DecodeILBM sizes its pixel buffer for RGBA with a mask plane, else for RGB
IlbmComponents(masking) ==
    IF masking = mskHasMask THEN 4 ELSE 3

\* DecodeILBM: the index buffer, then a pixel buffer of its own in place of
\* the one Decode allocated, then the scratch buffers and the rows
DecodeILBMPixels(s, fails, readOk) ==
    IF fails = "decoderPixelData"
    THEN DecodeFail([s EXCEPT !.h = FreeBlock(@, s.p.paletteIndices),
                              !.p.pixelData = 0,
                              !.p.pixelDataSize = IlbmComponents(file.hdr.masking),
                              !.p.hasAlpha = (file.hdr.masking = mskHasMask)],
                    IFFPICTURE_NOMEM)
    ELSE DecodeRows([AllocPixelData(s) EXCEPT
                         !.p.pixelDataSize = IlbmComponents(file.hdr.masking),
                         !.p.hasAlpha = (file.hdr.masking = mskHasMask)],
                    fails, readOk)

DecodeILBM(s, fails, readOk) ==
    IF ~s.p.bmhd \/ ~s.p.cmap THEN DecodeFail(s, IFFPICTURE_INVALID)
    ELSE IF fails = "paletteIndices"
    THEN DecodeFail([s EXCEPT !.p.paletteIndices = 0], IFFPICTURE_NOMEM)
    ELSE DecodeILBMPixels(AllocPaletteIndices(s), fails, readOk)

\* DecodeFAXX after its allocations: every failure releases the index
\* buffer and leaves the pointer as it is
DecodeFAXXRows(s, readOk) ==
    IF file.hdr.compression = FXCMPMMR
    THEN DecodeFail([s EXCEPT !.h = FreeBlock(@, s.p.paletteIndices)],
                    IFFPICTURE_UNSUPPORTED)
    ELSE IF ~readOk
    THEN DecodeFail([s EXCEPT !.h = FreeBlock(@, s.p.paletteIndices),
                              !.p.consumed = TRUE], IFFPICTURE_BADFILE)
    ELSE [s EXCEPT !.p.consumed = TRUE]

DecodeFAXX(s, fails, readOk) ==
    IF ~s.p.bmhd \/ ~s.p.cmap THEN DecodeFail(s, IFFPICTURE_INVALID)
    ELSE IF file.hdr.compression \notin {FXCMPNONE, FXCMPMH, FXCMPMR, FXCMPMMR}
    THEN DecodeFail(s, IFFPICTURE_UNSUPPORTED)
    ELSE IF s.p.pixelData = 0 THEN DecodeFail(s, IFFPICTURE_INVALID)
    ELSE IF s.p.iff = "null" THEN DecodeFail(s, IFFPICTURE_INVALID)
    ELSE IF fails = "paletteIndices"
    THEN DecodeFail([s EXCEPT !.p.paletteIndices = 0], IFFPICTURE_NOMEM)
    ELSE IF fails = "scratch"
    THEN DecodeFail([AllocPaletteIndices(s) EXCEPT
                         !.h = FreeBlock(@, Len(s.h) + 1), !.p.paletteIndices = 0],
                    IFFPICTURE_NOMEM)
    ELSE DecodeFAXXRows(AllocPaletteIndices(s), readOk)

\* the switch on the form type
DecodeDispatch(s, fails, readOk) ==
    IF s.p.formtype = "ILBM"
    THEN IF s.p.isHAM THEN DecodeHAM(s, fails, readOk)
         ELSE IF s.p.isEHB THEN DecodeEHB(s, fails, readOk)
         ELSE DecodeILBM(s, fails, readOk)
    ELSE IF s.p.formtype = "PBM " THEN DecodePBM(s, fails, readOk)
    ELSE IF s.p.formtype = "FAXX" THEN DecodeFAXX(s, fails, readOk)
    ELSE IF s.p.formtype = "RGBN" THEN DecodeRGBN(s, fails, readOk)
    ELSE IF s.p.formtype = "RGB8" THEN DecodeRGB8(s, fails, readOk)
    ELSE IF s.p.formtype = "DEEP" THEN DecodeDEEP(s, fails, readOk)
    ELSE IF s.p.formtype = "ACBM" THEN DecodeACBM(s, fails, readOk)
    ELSE IF s.p.formtype = "YUVN" THEN DecodeYUVN(s, fails, readOk)
    ELSE DecodeFail(s, IFFPICTURE_UNSUPPORTED)

\* after the decoder: the decoded flag, or the release of the pixel buffer
DecodeCleanup(s) ==
    IF s.r = RETURN_OK THEN [s EXCEPT !.p.isDecoded = TRUE]
    ELSE IF s.p.pixelData # 0
    THEN [s EXCEPT !.h = FreeBlock(@, s.p.pixelData), !.p.pixelData = 0,
                   !.p.pixelDataSize = 0]
    ELSE s

\* a Decode without the test for the header
HeaderMissingNever(p) ==
    FALSE

\* the header the dimensions are taken from is missing
HeaderMissing(p) ==
    IF p.formtype = "YUVN" THEN ~p.ychd ELSE ~p.bmhd

DecodeCall(s, fails, nullRead) ==
    IF ~s.p.isLoaded THEN DecodeFail(s, IFFPICTURE_INVALID)
    ELSE IF HeaderMissing(s.p) THEN DecodeFail(s, IFFPICTURE_INVALID)
    ELSE IF fails = "pixelData"
    THEN DecodeFail([s EXCEPT !.p.pixelData = 0, !.p.pixelDataSize = 3],
                    IFFPICTURE_NOMEM)
    ELSE DecodeCleanup(DecodeDispatch(AllocPixelData([s EXCEPT !.p.pixelDataSize = 3]),
                                      fails, BodyRead(s.p, nullRead)))

\* a Decode call allocates at most three blocks for the picture
Decode ==
    /\ ~pic.released /\ pic.pc = "idle"
    /\ Len(heap) + 3 <= MaxBlocks
    /\ \E fails \in AllocSites, nullRead \in BOOLEAN :
         /\ pic' = DecodeCall(Returned(pic, heap, RETURN_OK), fails, nullRead).p
         /\ heap' = DecodeCall(Returned(pic, heap, RETURN_OK), fails, nullRead).h
         /\ ret' = [call |-> "Decode",
                    result |-> DecodeCall(Returned(pic, heap, RETURN_OK),
                                          fails, nullRead).r]
    /\ UNCHANGED <<file, rle, fax, pix>>

(***************************************************************************)
(* CloseIFFPicture and FreeIFFPicture                                      *)
(***************************************************************************)
CloseIFFPictureCall(p) ==
    IF p.iff # "null" THEN [p EXCEPT !.iff = "null", !.stream = FALSE] ELSE p

CloseIFFPicture ==
    /\ ~pic.released /\ pic.pc = "idle"
    /\ pic' = CloseIFFPictureCall(pic)
    /\ ret' = [call |-> "CloseIFFPicture", result |-> RETURN_OK]
    /\ UNCHANGED <<heap, file, rle, fax, pix>>

\* FreeMem of a buffer of the picture, if the pointer is not NULL
FreeBuffer(h, p) ==
    IF p # 0 THEN FreeBlock(h, p) ELSE h

FreeIFFPicture ==
    /\ ~pic.released /\ pic.pc = "idle"
    /\ pic' = [CloseIFFPictureCall(pic) EXCEPT
                   !.bmhd = FALSE, !.ychd = FALSE, !.cmap = FALSE,
                   !.pixelData = 0, !.paletteIndices = 0, !.released = TRUE,
                   !.pixelDataSize = IF pic.pixelData # 0 THEN 0 ELSE @]
    /\ heap' = FreeBuffer(FreeBuffer(heap, pic.pixelData), pic.paletteIndices)
    /\ ret' = [call |-> "FreeIFFPicture", result |-> RETURN_OK]
    /\ UNCHANGED <<file, rle, fax, pix>>

Init ==
    /\ pic = AllocIFFPicture
    /\ heap = <<>>
    /\ file \in Files
    /\ ret = RetIdle
    /\ rle = RleIdle /\ fax = FaxIdle /\ pix = PixIdle

Next ==
    \/ InitIFFPictureasDOS
    \/ SetStream
    \/ OpenIFFPicture
    \/ ParseIFFPicture
    \/ ParseScan
    \/ ParseExtract
    \/ Decode
    \/ CloseIFFPicture
    \/ FreeIFFPicture

Spec == Init /\ [][Next]_vars

\* ParseIFFPicture alone, on a picture that has been opened; a call that
\* has started runs to its return
ParseInit ==
    /\ pic = [AllocIFFPicture EXCEPT !.iff = "open", !.stream = TRUE,
                                     !.wasInit = TRUE, !.isLoaded = TRUE]
    /\ heap = <<>>
    /\ file \in Files
    /\ ret = [call |-> "OpenIFFPicture", result |-> RETURN_OK]
    /\ rle = RleIdle /\ fax = FaxIdle /\ pix = PixIdle

ParseNext ==
    \/ ParseIFFPicture
    \/ ParseScan
    \/ ParseExtract

SpecParse == ParseInit /\ [][ParseNext]_vars /\ WF_vars(ParseNext)

(***************************************************************************)
(* Properties of the lifecycle                                             *)
(***************************************************************************)
\* C1: when Decode has returned failure (and no earlier Decode of the
\* picture succeeded), neither a pixel buffer nor a palette-index buffer
\* is attached to the picture: both pointers are NULL.
C1_FailedDecodeLeavesNoBuffer ==
    (/\ ret.call = "Decode" /\ ret.result = RETURN_FAIL
     /\ ~pic.isDecoded /\ ~pic.released) =>
        /\ pic.pixelData = 0
        /\ pic.paletteIndices = 0

\* C7: a Decode call on a picture that is open and has not been parsed
\* returns failure with IFFPICTURE_INVALID, and no pixel buffer exists:
\* the pointer is NULL and nothing has been allocated.
C7_DecodeBeforeParseIsInvalid ==
    (/\ ret.call = "Decode" /\ pic.iff = "open"
     /\ ~pic.parsed /\ pic.pc = "idle") =>
        /\ ret.result = RETURN_FAIL
        /\ pic.lastError = IFFPICTURE_INVALID
        /\ pic.pixelData = 0
        /\ heap = <<>>

C7_Witness ==
    /\ ret.call = "Decode" /\ ret.result = RETURN_FAIL
    /\ pic.iff = "open" /\ pic.isLoaded
    /\ ~pic.parsed /\ pic.pc = "idle"

\* the file holds none of the stop chunks of its form type
NoStopChunk(f) ==
    \A i \in 1..Len(f.chunks) : f.chunks[i] \notin StopChunks(f.formtype)

\* C8: a ParseIFFPicture call that scans a container of a supported form
\* type in which no stop chunk occurs comes to its return, and returns
\* failure with IFFPICTURE_BADFILE.
C8_MissingStopChunkIsBadFile ==
    (pic.pc = "scan" /\ NoStopChunk(file)) ~>
        (/\ pic.pc = "idle"
         /\ ret.call = "ParseIFFPicture" /\ ret.result = RETURN_FAIL
         /\ pic.lastError = IFFPICTURE_BADFILE
         /\ ~pic.isDecoded)

\* a YUVN file with its header and no data chunk, scanned to the end
C8_Witness ==
    /\ pic.pc = "idle" /\ pic.parsed
    /\ file.formtype = "YUVN" /\ NoStopChunk(file)
    /\ "YCHD" \in pic.props
    /\ pic.scanPos = Len(file.chunks) /\ pic.scanError = IFFERR_EOF
    /\ ret.call = "ParseIFFPicture" /\ ret.result = RETURN_FAIL
    /\ pic.lastError = IFFPICTURE_BADFILE

\* C15: when Decode has just returned success, the pixel buffer has
\* width * height * components bytes, with 4 components when the picture
\* reports alpha and 3 when it does not (pixelDataSize is held in units of
\* width * height bytes).
C15_PixelBufferMatchesAlpha ==
    (ret.call = "Decode" /\ ret.result = RETURN_OK /\ pic.pixelData # 0) =>
        pic.pixelDataSize = IF pic.hasAlpha THEN 4 ELSE 3

\* the variants the container contract lists
ListedVariants == {"ILBM", "PBM ", "RGBN", "RGB8", "DEEP", "ACBM", "FAXX"}

\* C16: a Decode called right after ParseIFFPicture has returned success for
\* one of the listed variants passes the tests made before the switch on
\* the variant (picture loaded, header present) and so reaches the decoder
\* of the variant.
C16_ParsedVariantReachesDecoder ==
    [][(/\ ret.call = "ParseIFFPicture" /\ ret.result = RETURN_OK
        /\ pic.formtype \in ListedVariants
        /\ ret'.call = "Decode") =>
            (pic.isLoaded /\ ~HeaderMissing(pic))]_vars

\* the picture comes from a palette-based variant: standard interleaved
\* planes, packed pixels, contiguous planes or fax
IndexedSource ==
    \/ pic.formtype \in {"PBM ", "ACBM", "FAXX"}
    \/ pic.formtype = "ILBM" /\ ~pic.isHAM /\ ~pic.isEHB

\* C17: when Decode has just returned success for a palette-based picture,
\* the picture has a palette-index buffer (allocated with width * height
\* bytes) next to its pixel buffer.
C17_IndexedDecodeHasIndexBuffer ==
    (ret.call = "Decode" /\ ret.result = RETURN_OK /\ IndexedSource) =>
        /\ pic.paletteIndices # 0
        /\ heap[pic.paletteIndices] = "live"

\* the plane count of the header does not fit the mode Decode selects
PlaneMismatch ==
    \/ pic.formtype = "ILBM" /\ pic.isHAM /\ file.hdr.nPlanes < 6
    \/ pic.formtype = "ILBM" /\ ~pic.isHAM /\ pic.isEHB /\ pic.cmap
         /\ file.hdr.nPlanes # 6
    \/ pic.formtype = "RGBN" /\ file.hdr.nPlanes \notin {12, 13}

\* C20: a Decode of a loaded picture whose plane count does not fit the
\* selected mode (HAM under 6 planes, EHB other than 6, RGBN other than 12
\* or 13) returns failure with the error IFFPICTURE_UNSUPPORTED, unless the
\* pixel buffer could not be allocated.
C20_PlaneMismatchIsUnsupported ==
    [][(/\ pic.isLoaded /\ ~HeaderMissing(pic) /\ PlaneMismatch
        /\ ret'.call = "Decode" /\ pic'.lastError # IFFPICTURE_NOMEM) =>
            (/\ ret'.result = RETURN_FAIL
             /\ pic'.lastError = IFFPICTURE_UNSUPPORTED)]_vars

\* C21: a Decode of a loaded ACBM picture with header and palette whose
\* compression code is not 0 returns failure with the error
\* IFFPICTURE_UNSUPPORTED, unless the pixel buffer could not be allocated.
C21_CompressedACBMIsUnsupported ==
    [][(/\ pic.isLoaded /\ ~HeaderMissing(pic) /\ pic.formtype = "ACBM" /\ pic.cmap
        /\ file.hdr.compression # cmpNone
        /\ ret'.call = "Decode" /\ pic'.lastError # IFFPICTURE_NOMEM) =>
            (/\ ret'.result = RETURN_FAIL
             /\ pic'.lastError = IFFPICTURE_UNSUPPORTED)]_vars

\* the scan has stored the chunk of the file whose size is wrong
MalformedStored ==
    \/ file.malformed = "header" /\ HeaderChunk(pic.formtype) \in pic.props
    \/ file.malformed = "CMAP" /\ "CMAP" \in pic.props

\* C22: when ParseIFFPicture has returned for a file whose malformed
\* registered chunk the scan has stored, it has returned failure with the
\* error IFFPICTURE_BADFILE (unless an allocation failed).
C22_MalformedChunkIsBadFile ==
    (/\ ret.call = "ParseIFFPicture" /\ pic.pc = "idle" /\ pic.parsed
     /\ MalformedStored /\ pic.lastError # IFFPICTURE_NOMEM) =>
        (ret.result = RETURN_FAIL /\ pic.lastError = IFFPICTURE_BADFILE)

(***************************************************************************)
(* DecodeMHRun alone, on a bitstream that presents chosen codes            *)
(***************************************************************************)
\* the bits of a code of n bits, most significant first
CodeBits(code, n) ==
    [i \in 1..n |-> BitOf(code, n - i)]

\* the byte made of the eight bits of `bits` from position k, most
\* significant first, with the fill bit beyond the end
RECURSIVE PackByte(_, _, _, _)
PackByte(bits, k, j, fill) ==
    IF j = 8 THEN 0
    ELSE ((IF k + j <= Len(bits) THEN bits[k + j] ELSE fill) * Pow2(7 - j))
         + PackByte(bits, k, j + 1, fill)

\* the bytes that hold `bits` followed by fill bits: the last byte is
\* filled up and one byte of fill follows
PackBits(bits, fill) ==
    [b \in 1..((Len(bits) \div 8) + 2) |-> PackByte(bits, ((b - 1) * 8) + 1, 0, fill)]

\* the number of bits a reader has consumed
BitsConsumed(bs) ==
    IF bs.n = 0 THEN 0 ELSE ((bs.n - 1) * 8) + bs.bitPos

\* the terminating table of a colour
TerminatingCodes(isWhite) ==
    IF isWhite THEN mh_white_codes ELSE mh_black_codes

\* the make-up code for 1728 of ITU-T T.4: 010011011 for a white run,
\* 0000001100101 for a black run
Makeup1728(isWhite) ==
    IF isWhite THEN <<155, 9, 1728>> ELSE <<101, 13, 1728>>

\* the codes presented: one terminating code, or the make-up code for 1728
\* followed by a terminating code
RunInputs ==
    {[isWhite |-> w, bits |-> CodeBits(TerminatingCodes(w)[t][1], TerminatingCodes(w)[t][2]),
      makeup |-> 0, expect |-> TerminatingCodes(w)[t][3], fill |-> f] :
        w \in BOOLEAN, t \in 1..64, f \in {0, 1}}
    \cup
    {[isWhite |-> w,
      bits |-> CodeBits(Makeup1728(w)[1], Makeup1728(w)[2])
               \o CodeBits(TerminatingCodes(w)[t][1], TerminatingCodes(w)[t][2]),
      makeup |-> Makeup1728(w)[3],
      expect |-> Makeup1728(w)[3] + TerminatingCodes(w)[t][3], fill |-> f] :
        w \in BOOLEAN, t \in 1..64, f \in {0, 1}}

RunInit ==
    /\ fax \in {[status |-> "code", isWhite |-> i.isWhite, bits |-> i.bits,
                 makeup |-> i.makeup, expect |-> i.expect,
                 bs |-> InitFaxBitstream(PackBits(i.bits, i.fill)), run |-> 0] :
                    i \in RunInputs}
    /\ pic = PicIdle /\ heap = HeapIdle /\ file = FileIdle /\ ret = RetIdle
    /\ rle = RleIdle /\ pix = PixIdle

\* one call of DecodeMHRun
RunDecode ==
    /\ fax.status = "code"
    /\ fax' = [fax EXCEPT !.status = "decoded",
                          !.run = DecodeMHRun(fax.bs, fax.isWhite).run,
                          !.bs = DecodeMHRun(fax.bs, fax.isWhite).bs]
    /\ UNCHANGED <<pic, heap, file, ret, rle, pix>>

RunNext == RunDecode

SpecRun == RunInit /\ [][RunNext]_vars

\* C12: for a white and for a black run of each length 0..63, the call of
\* the run decoder on that run's terminating code returns the run length
\* and has consumed exactly the bits of the code, whatever bits follow.
C12_TerminatingCodesDecode ==
    (fax.status = "decoded" /\ fax.makeup = 0) =>
        /\ fax.run = fax.expect
        /\ BitsConsumed(fax.bs) = Len(fax.bits)

\* the longest black terminating code (run 63, 12 bits) has been decoded
C12_Witness ==
    /\ fax.status = "decoded" /\ fax.makeup = 0
    /\ ~fax.isWhite /\ fax.expect = 63 /\ fax.run = 63
    /\ Len(fax.bits) = 12

\* C13: one call of the run decoder on the make-up code for 1728 followed
\* by the terminating code for 13 returns 1741, for a white run and for a
\* black run.
C13_MakeupThenTerminating ==
    (fax.status = "decoded" /\ fax.makeup = 1728 /\ fax.expect = 1741) =>
        fax.run = 1741

(***************************************************************************)
(* DecodeHAM (image_decoder.c)                                             *)
(***************************************************************************)
HAMCODE_CMAP == 0
HAMCODE_BLUE == 1
HAMCODE_RED == 2
HAMCODE_GREEN == 3

\* hambits = depth - 2; hamshift = 8 - hambits
HamBits(p) == p.nPlanes - 2
HamShift(p) == 8 - HamBits(p)

\* hamCode = (pixelValue >> hambits) & 0x03; hamIndex = pixelValue & hammask
HamCode(p, pixelValue) == (pixelValue \div Pow2(HamBits(p))) % 4
HamIndex(p, pixelValue) == pixelValue % Pow2(HamBits(p))

\* (c & hammask2) | (hamIndex << hamshift)
HamModify(p, c, hamIndex) ==
    (c % Pow2(HamShift(p))) + (hamIndex * Pow2(HamShift(p)))

\* HAMCODE_CMAP: the palette entry, or without one (or beyond its end) the
\* gray (hamIndex << hamshift) | ((hamIndex << hamshift) >> hambits)
HamCmap(p, hamIndex) ==
    IF p.cmap.numcolors > 0 /\ hamIndex < p.cmap.numcolors
    THEN CmapLookup(p.cmap, hamIndex)
    ELSE <<(hamIndex * Pow2(HamShift(p)))
             + ((hamIndex * Pow2(HamShift(p))) \div Pow2(HamBits(p))),
           (hamIndex * Pow2(HamShift(p)))
             + ((hamIndex * Pow2(HamShift(p))) \div Pow2(HamBits(p))),
           (hamIndex * Pow2(HamShift(p)))
             + ((hamIndex * Pow2(HamShift(p))) \div Pow2(HamBits(p)))>>

\* the switch on hamCode: r, g, b after one pixel
HamPixel(p, pixelValue, rgb) ==
    IF HamCode(p, pixelValue) = HAMCODE_CMAP
    THEN HamCmap(p, HamIndex(p, pixelValue))
    ELSE IF HamCode(p, pixelValue) = HAMCODE_BLUE
    THEN <<rgb[1], rgb[2], HamModify(p, rgb[3], HamIndex(p, pixelValue))>>
    ELSE IF HamCode(p, pixelValue) = HAMCODE_RED
    THEN <<HamModify(p, rgb[1], HamIndex(p, pixelValue)), rgb[2], rgb[3]>>
    ELSE <<rgb[1], HamModify(p, rgb[2], HamIndex(p, pixelValue)), rgb[3]>>

\* r, g, b kept from the row before instead of being set to black
HamRowStartKept(rgb) == rgb

\* r = g = b = 0 before the first pixel of a row; rgb is the last pixel of
\* the row before
HamRowStart(rgb) == <<0, 0, 0>>

\* the column loop of one row: out is what has been written to rgbOut
RECURSIVE HamPixels(_, _, _, _, _)
HamPixelWrite(p, planes, col, rgb, out) ==
    HamPixels(p, planes, col + 1, rgb, Append(out, rgb))

HamPixels(p, planes, col, rgb, out) ==
    IF col >= p.w THEN out
    ELSE HamPixelWrite(p, planes, col,
                       HamPixel(p, PixelIndexOf(planes, p.nPlanes, col), rgb), out)

\* the plane rows that give a row of pixel values
PlanesOf(vals, depth) ==
    [k \in 1..depth |->
        [at |-> 0, val |-> BitOf(vals[1], k - 1) * 128 + BitOf(vals[2], k - 1) * 64
                           + BitOf(vals[3], k - 1) * 32]]

\* Bounds and inputs of DecodeHAM: pictures of HamWidth pixels, up to
\* MaxHamHeight rows, of 6 or 8 planes (and of 5, which is refused)
HamWidth == 3
MaxHamHeight == 2
HamDepths == {6, 8}
HamValues(depth) ==
    {1, (HAMCODE_BLUE * Pow2(depth - 2)) + 5, (HAMCODE_RED * Pow2(depth - 2)) + 9,
     (HAMCODE_GREEN * Pow2(depth - 2)) + 10}
HamBodyRows(depth) ==
    {PlanesOf(<<a, b, c>>, depth) :
        a \in HamValues(depth), b \in HamValues(depth), c \in HamValues(depth)}
\* the first rows of pictures of two rows start with palette index 3
HamLeadRows(depth) ==
    {PlanesOf(<<3, b, 1>>, depth) : b \in HamValues(depth)}
HamBodies(depth, h) ==
    IF h = 1 THEN HamBodyRows(depth)
    ELSE {x \o y : x \in HamLeadRows(depth), y \in HamBodyRows(depth) \cup {<<>>}}
NoCmap == [numcolors |-> 0, data |-> <<>>, is4Bit |-> FALSE]

HamInit ==
    /\ pix \in UNION {{PixStart(FALSE, HamWidth, h, d, <<mskNone, 0>>, cm, b) :
                            b \in HamBodies(d, h),
                            cm \in {NoCmap, PaletteOf(2, FALSE), PaletteOf(2, TRUE)}} :
                        d \in HamDepths, h \in 1..MaxHamHeight}
          \cup {PixStart(FALSE, HamWidth, 1, 5, <<mskNone, 0>>, NoCmap, <<>>)}
    /\ pic = PicIdle /\ heap = HeapIdle /\ file = FileIdle /\ ret = RetIdle
    /\ rle = RleIdle /\ fax = FaxIdle

\* DecodeHAM up to its row loop: depth >= 6 and the plane buffer
HamBegin ==
    /\ pix.status = "begin"
    /\ \E planeOk \in BOOLEAN :
         pix' = IF pix.nPlanes < 6
                THEN PixFail(pix, IFFPICTURE_INVALID, pix.paletteIndices,
                             pix.pixelData)
                ELSE IF ~planeOk
                THEN PixFail(pix, IFFPICTURE_NOMEM, pix.paletteIndices,
                             pix.pixelData)
                ELSE [pix EXCEPT !.status = "rows"]
    /\ UNCHANGED <<pic, heap, file, ret, rle, fax>>

\* one turn of the row loop of DecodeHAM
HamRowRead(p, planes) ==
    IF Len(planes) # p.nPlanes
    THEN PixFail([p EXCEPT !.pos = @ + Len(planes)], IFFPICTURE_BADFILE,
                 p.paletteIndices, p.pixelData)
    ELSE [p EXCEPT !.pos = @ + p.nPlanes, !.row = @ + 1,
                   !.rgb = HamPixels(p, planes, 0,
                                     HamRowStart(IF Len(p.rgb) = 0 THEN <<0, 0, 0>>
                                                 ELSE p.rgb[Len(p.rgb)]),
                                     p.rgb)]

HamRow ==
    /\ pix.status = "rows"
    /\ pix.row < pix.h
    /\ \E pixelValuesOk \in BOOLEAN :
         pix' = IF ~pixelValuesOk
                THEN PixFail(pix, IFFPICTURE_NOMEM, pix.paletteIndices,
                             pix.pixelData)
                ELSE HamRowRead(pix, RowPlanes(pix, pix.nPlanes))
    /\ UNCHANGED <<pic, heap, file, ret, rle, fax>>

HamNext ==
    \/ HamBegin
    \/ HamRow
    \/ PixEnd

SpecHam == HamInit /\ [][HamNext]_vars

\* the pixel value of output pixel i (from 1), from the plane rows of the BODY
HamValueAt(i) ==
    PixelIndexOf(SubSeq(pix.body, (((i - 1) \div pix.w) * pix.nPlanes) + 1,
                        (((i - 1) \div pix.w) + 1) * pix.nPlanes),
                 pix.nPlanes, (i - 1) % pix.w)

\* the output pixel before pixel i on its scanline, black for the first
HamBefore(i) ==
    IF (i - 1) % pix.w = 0 THEN <<0, 0, 0>> ELSE pix.rgb[i - 1]

\* the components (1 red, 2 green, 3 blue) a pixel value does not modify
HamKept(pixelValue) ==
    IF (pixelValue \div Pow2(pix.nPlanes - 2)) % 4 = 1 THEN {1, 2}
    ELSE IF (pixelValue \div Pow2(pix.nPlanes - 2)) % 4 = 2 THEN {2, 3}
    ELSE IF (pixelValue \div Pow2(pix.nPlanes - 2)) % 4 = 3 THEN {1, 3}
    ELSE {}

\* C14: in the HAM output a pixel whose code is modify-red, modify-green or
\* modify-blue has its two other components equal to those of the pixel
\* before it on the same scanline, and to 0 when it is the first of the line.
C14_HamModifyKeepsOthers ==
    pix.status \in {"rows", "done"} =>
        \A i \in 1..Len(pix.rgb) : \A c \in HamKept(HamValueAt(i)) :
            pix.rgb[i][c] = HamBefore(i)[c]

\* a finished two-row picture whose second row starts with a modify-red
\* pixel after a first row that ended in a colour other than black
C14_Witness ==
    /\ pix.status = "done" /\ pix.h = 2 /\ Len(pix.rgb) = 2 * pix.w
    /\ (HamValueAt(pix.w + 1) \div Pow2(pix.nPlanes - 2)) % 4 = 2
    /\ pix.rgb[pix.w][2] # 0
    /\ pix.rgb[pix.w + 1][2] = 0 /\ pix.rgb[pix.w + 1][1] # 0

(***************************************************************************)
(* AnalyzeFormat (image_analyzer.c) on a parsed picture                    *)
(***************************************************************************)
\* Bounds and inputs: palettes of up to MaxCmapEntries entries
MaxCmapEntries == 3
CmapEntries == {<<0, 0, 0>>, <<16, 16, 16>>, <<255, 255, 255>>, <<16, 32, 16>>, <<7, 7, 8>>}

\* the colour map ReadCMAP builds from the entries of a CMAP chunk
RECURSIVE Flatten(_)
Flatten(entries) ==
    IF entries = <<>> THEN <<>> ELSE Head(entries) \o Flatten(Tail(entries))

CmapOf(entries) ==
    [numcolors |-> Len(entries), data |-> Flatten(entries),
     is4Bit |-> Is4Bit(Flatten(entries))]

\* the flags ParseIFFPicture leaves for a picture of the BMHD family:
\* ReadCMAP marks a picture with a palette indexed, ReadCAMG sets the HAM
\* and EHB flags, and an ILBM of 24 planes is not indexed
ParsedBMHD(formType, nPlanes, viewmode, cmap) ==
    [status |-> "parsed", formtype |-> formType, isLoaded |-> TRUE, bmhd |-> TRUE,
     nPlanes |-> nPlanes, cmap |-> cmap,
     isIndexed |-> (cmap.numcolors > 0 /\ ~(formType = "ILBM" /\ nPlanes = 24)),
     isHAM |-> (viewmode = "HAM"), isEHB |-> (viewmode = "EHB"),
     isGrayscale |-> FALSE, r |-> RETURN_OK, err |-> IFFPICTURE_OK]

\* a FAXX picture has the palette of its CMAP or the default black and white
ParsedFAXX(cmap) ==
    [ParsedBMHD("FAXX", 1, "none", IF cmap.numcolors > 0 THEN cmap
                                    ELSE CmapOf(<<<<0, 0, 0>>, <<255, 255, 255>>>>))
     EXCEPT !.isIndexed = TRUE]

\* a DEEP picture has no BMHD and no palette
ParsedDEEP ==
    [ParsedBMHD("DEEP", 24, "none", NoCmap) EXCEPT !.bmhd = FALSE]

AnalyzeInit ==
    /\ pix \in {ParsedBMHD(f, n, v, CmapOf(e)) :
                    f \in {"ILBM", "PBM ", "RGBN", "RGB8", "ACBM"},
                    n \in {1, 6, 24}, v \in {"none", "HAM", "EHB"},
                    e \in SeqsUpTo(CmapEntries, MaxCmapEntries)}
          \cup {ParsedFAXX(CmapOf(e)) : e \in SeqsUpTo(CmapEntries, MaxCmapEntries)}
          \cup {ParsedDEEP}
    /\ pic = PicIdle /\ heap = HeapIdle /\ file = FileIdle /\ ret = RetIdle
    /\ rle = RleIdle /\ fax = FaxIdle

AnalyzeFormatCall(p) ==
    IF ~p.isLoaded \/ ~p.bmhd
    THEN [p EXCEPT !.status = "analyzed", !.r = RETURN_FAIL, !.err = IFFPICTURE_INVALID]
    ELSE IF p.isIndexed /\ p.cmap.numcolors > 0
    THEN [p EXCEPT !.status = "analyzed", !.isGrayscale = IsGrayscale(p.cmap)]
    ELSE IF ~p.isIndexed /\ p.nPlanes = 1
    THEN [p EXCEPT !.status = "analyzed", !.isGrayscale = TRUE]
    ELSE IF p.formtype \in {"DEEP", "RGBN", "RGB8"} \/ p.isHAM
    THEN [p EXCEPT !.status = "analyzed", !.isGrayscale = FALSE]
    ELSE [p EXCEPT !.status = "analyzed"]

AnalyzeFormat ==
    /\ pix.status = "parsed"
    /\ pix' = AnalyzeFormatCall(pix)
    /\ UNCHANGED <<pic, heap, file, ret, rle, fax>>

AnalyzeNext == AnalyzeFormat

SpecAnalyze == AnalyzeInit /\ [][AnalyzeNext]_vars

\* C18: after AnalyzeFormat a DEEP, RGBN or RGB8 picture and a HAM picture
\* are not marked grayscale, whatever palette the file carries.
C18_TrueColourNeverGrayscale ==
    (/\ pix.status = "analyzed"
     /\ (pix.formtype \in {"DEEP", "RGBN", "RGB8"} \/ pix.isHAM)) =>
        ~pix.isGrayscale

\* palette byte v after the expansion of a 4-bit palette (one whose bytes
\* all have a zero low nibble)
ExpandedByte(v) ==
    IF \A k \in 1..Len(pix.cmap.data) : pix.cmap.data[k] % 16 = 0
    THEN v + (v \div 16) ELSE v

\* every palette entry has equal red, green and blue after the expansion
EveryEntryGray ==
    \A i \in 0..(pix.cmap.numcolors - 1) :
        /\ ExpandedByte(pix.cmap.data[(3 * i) + 1]) = ExpandedByte(pix.cmap.data[(3 * i) + 2])
        /\ ExpandedByte(pix.cmap.data[(3 * i) + 2]) = ExpandedByte(pix.cmap.data[(3 * i) + 3])

\* a picture of a palette-based variant with a palette
PaletteBased ==
    /\ pix.formtype \in {"ILBM", "PBM ", "ACBM", "FAXX"}
    /\ ~pix.isHAM
    /\ pix.cmap.numcolors > 0
    /\ ~(pix.formtype = "ILBM" /\ pix.nPlanes = 24)

\* C19: after AnalyzeFormat of a palette-based picture the grayscale flag
\* is set exactly when every palette entry, 4-bit entries expanded, has
\* R = G = B.
C19_GrayscaleIffGrayPalette ==
    (pix.status = "analyzed" /\ PaletteBased) =>
        (pix.isGrayscale <=> EveryEntryGray)

\* a palette of three entries whose last entry alone is not gray
C19_Witness ==
    /\ pix.status = "analyzed" /\ PaletteBased
    /\ pix.cmap.numcolors = 3
    /\ pix.cmap.data = <<16, 16, 16, 255, 255, 255, 7, 7, 8>>
    /\ ~pix.isGrayscale

(***************************************************************************)
(* Scratch buffers of the decoders: every AllocMem and FreeMem of a local   *)
(* buffer inside one decoder call.  heap holds the blocks, pix the call:    *)
(* its decoder, the header fields that select allocations, the row reached  *)
(* and the local pointers (0 is NULL).                                      *)
(***************************************************************************)
MaxScratchRows == 2

ScratchNames ==
    {"planeBuffer", "alphaValues", "pixelIndices", "pixelValues", "rValues",
     "gValues", "bValues", "rowBuffer", "planeData", "lineBuffer", "refLine",
     "curline"}

NoScratch == [n \in ScratchNames |-> 0]

\* AllocMem into the local pointer name; a failed allocation leaves NULL
ScratchAlloc(s, name, nulls) ==
    IF name \in nulls
    THEN [s EXCEPT !.b[name] = 0]
    ELSE [s EXCEPT !.h = AllocBlock(s.h), !.b[name] = Len(s.h) + 1]

\* a FreeMem that returns nothing to the pool
ScratchFreeSkipped(s, name) ==
    s

\* FreeMem(name, size); the local pointer keeps its value
ScratchFree(s, name) ==
    [s EXCEPT !.h = FreeBlock(s.h, s.b[name])]

\* if (name) FreeMem(name, size)
ScratchFreeIf(s, name) ==
    IF s.b[name] # 0 THEN ScratchFree(s, name) ELSE s

RECURSIVE ScratchFreeAll(_, _)
ScratchFreeAll(s, names) ==
    IF names = <<>> THEN s
    ELSE ScratchFreeAll(ScratchFree(s, Head(names)), Tail(names))

RECURSIVE ScratchFreeAllIf(_, _)
ScratchFreeAllIf(s, names) ==
    IF names = <<>> THEN s
    ELSE ScratchFreeAllIf(ScratchFreeIf(s, Head(names)), Tail(names))

RECURSIVE ScratchAllocAll(_, _, _)
ScratchAllocAll(s, names, nulls) ==
    IF names = <<>> THEN s
    ELSE ScratchAllocAll(ScratchAlloc(s, Head(names), nulls), Tail(names), nulls)

ScratchReturn(s, status, error) ==
    [s EXCEPT !.status = status, !.error = error]

\* the row buffer of the planar decoders, allocated inside the row loop
RowScratch(decoder) ==
    IF decoder = "HAM" THEN "pixelValues" ELSE "pixelIndices"

ComponentScratch == <<"planeBuffer", "rValues", "gValues", "bValues">>

\* DecodeILBM up to its row loop
ScratchBeginILBM(s, nulls) ==
    IF "planeBuffer" \in nulls
    THEN ScratchReturn(s, "failed", IFFPICTURE_NOMEM)
    ELSE IF s.masking = mskHasMask /\ "alphaValues" \in nulls
    THEN ScratchReturn(ScratchFree(ScratchAlloc(s, "planeBuffer", nulls), "planeBuffer"),
                       "failed", IFFPICTURE_NOMEM)
    ELSE IF s.masking = mskHasMask
    THEN ScratchAllocAll(s, <<"planeBuffer", "alphaValues">>, nulls)
    ELSE ScratchAlloc(s, "planeBuffer", nulls)

\* DecodeHAM and DecodeEHB up to their row loops
ScratchBeginPlanar(s, nulls) ==
    IF "planeBuffer" \in nulls
    THEN ScratchReturn(s, "failed", IFFPICTURE_NOMEM)
    ELSE ScratchAlloc(s, "planeBuffer", nulls)

\* DecodeDEEP, DecodeRGBN and DecodeRGB8 up to their row loops
ScratchBeginComponents(s, nulls) ==
    IF \E i \in 1..Len(ComponentScratch) : ComponentScratch[i] \in nulls
    THEN ScratchReturn(ScratchFreeAllIf(ScratchAllocAll(s, ComponentScratch, nulls),
                                        ComponentScratch),
                       "failed", IFFPICTURE_NOMEM)
    ELSE ScratchAllocAll(s, ComponentScratch, nulls)

\* DecodePBM up to its row loop
ScratchBeginPBM(s, nulls) ==
    IF "rowBuffer" \in nulls
    THEN ScratchReturn(s, "failed", IFFPICTURE_NOMEM)
    ELSE ScratchAlloc(s, "rowBuffer", nulls)

\* DecodeACBM up to its row loop: the whole ABIT chunk is read first
ScratchBeginACBM(s, nulls, readOk) ==
    IF "planeData" \in nulls
    THEN ScratchReturn(s, "failed", IFFPICTURE_NOMEM)
    ELSE IF ~readOk
    THEN ScratchReturn(ScratchFree(ScratchAlloc(s, "planeData", nulls), "planeData"),
                       "failed", IFFPICTURE_BADFILE)
    ELSE IF "planeBuffer" \in nulls
    THEN ScratchReturn(ScratchFree(ScratchAlloc(s, "planeData", nulls), "planeData"),
                       "failed", IFFPICTURE_NOMEM)
    ELSE ScratchAllocAll(s, <<"planeData", "planeBuffer">>, nulls)

\* DecodeFAXX from the rowBuffer allocation up to the row loop of its branch;
\* readOk is the SkipToEOL before the first line and, for MR, its MH decode
ScratchBeginFAXX(s, nulls, readOk) ==
    IF "rowBuffer" \in nulls
    THEN ScratchReturn(s, "failed", IFFPICTURE_NOMEM)
    ELSE IF s.compression = FXCMPNONE
    THEN ScratchAlloc(s, "rowBuffer", nulls)
    ELSE IF s.compression = FXCMPMH
    THEN IF "lineBuffer" \in nulls
         THEN ScratchReturn(ScratchFree(ScratchAlloc(s, "rowBuffer", nulls), "rowBuffer"),
                            "failed", IFFPICTURE_NOMEM)
         ELSE IF ~readOk
         THEN ScratchReturn(
                  ScratchFreeAll(ScratchAllocAll(s, <<"rowBuffer", "lineBuffer">>, nulls),
                                 <<"lineBuffer", "rowBuffer">>),
                  "failed", IFFPICTURE_BADFILE)
         ELSE ScratchAllocAll(s, <<"rowBuffer", "lineBuffer">>, nulls)
    ELSE IF s.compression = FXCMPMR
    THEN IF "lineBuffer" \in nulls \/ "refLine" \in nulls
         THEN ScratchReturn(
                  ScratchFree(
                      ScratchFreeAllIf(
                          ScratchAllocAll(s, <<"rowBuffer", "lineBuffer", "refLine">>, nulls),
                          <<"lineBuffer", "refLine">>),
                      "rowBuffer"),
                  "failed", IFFPICTURE_NOMEM)
         ELSE IF ~readOk
         THEN ScratchReturn(
                  ScratchFreeAll(
                      ScratchAllocAll(s, <<"rowBuffer", "lineBuffer", "refLine">>, nulls),
                      <<"lineBuffer", "refLine", "rowBuffer">>),
                  "failed", IFFPICTURE_BADFILE)
         ELSE [ScratchAllocAll(s, <<"rowBuffer", "lineBuffer", "refLine">>, nulls)
               EXCEPT !.row = 1]
    ELSE ScratchReturn(ScratchFree(ScratchAlloc(s, "rowBuffer", nulls), "rowBuffer"),
                       "failed", IFFPICTURE_UNSUPPORTED)

ScratchBeginCall(s, nulls, readOk) ==
    IF s.decoder = "ILBM" THEN ScratchBeginILBM(s, nulls)
    ELSE IF s.decoder \in {"HAM", "EHB"} THEN ScratchBeginPlanar(s, nulls)
    ELSE IF s.decoder \in {"DEEP", "RGBN", "RGB8"} THEN ScratchBeginComponents(s, nulls)
    ELSE IF s.decoder = "PBM " THEN ScratchBeginPBM(s, nulls)
    ELSE IF s.decoder = "ACBM" THEN ScratchBeginACBM(s, nulls, readOk)
    ELSE ScratchBeginFAXX(s, nulls, readOk)

\* what the function-scope buffers of a decoder are, in the order it frees them
ScratchHeld(s) ==
    IF s.decoder = "ILBM" THEN <<"planeBuffer", "alphaValues">>
    ELSE IF s.decoder \in {"HAM", "EHB"} THEN <<"planeBuffer">>
    ELSE IF s.decoder \in {"DEEP", "RGBN", "RGB8"} THEN ComponentScratch
    ELSE IF s.decoder = "PBM " THEN <<"rowBuffer">>
    ELSE IF s.decoder = "ACBM" THEN <<"planeBuffer", "planeData">>
    ELSE IF s.compression = FXCMPMH THEN <<"lineBuffer", "rowBuffer">>
    ELSE IF s.compression = FXCMPMR THEN <<"lineBuffer", "refLine", "rowBuffer">>
    ELSE <<"rowBuffer">>

\* one row of DecodeILBM, DecodeHAM, DecodeEHB or DecodeACBM: the row buffer
\* is allocated, the planes are read, the row buffer is freed
ScratchRowPlanar(s, nulls, readOk) ==
    IF RowScratch(s.decoder) \in nulls
    THEN ScratchReturn(ScratchFreeAllIf(s, ScratchHeld(s)), "failed", IFFPICTURE_NOMEM)
    ELSE IF ~readOk /\ s.decoder # "ACBM"
    THEN ScratchReturn(
             ScratchFreeAllIf(
                 ScratchFree(ScratchAlloc(s, RowScratch(s.decoder), nulls),
                             RowScratch(s.decoder)),
                 ScratchHeld(s)),
             "failed", IFFPICTURE_BADFILE)
    ELSE [ScratchFree(ScratchAlloc(s, RowScratch(s.decoder), nulls),
                      RowScratch(s.decoder))
          EXCEPT !.row = s.row + 1]

\* one row of DecodeDEEP, DecodeRGBN, DecodeRGB8, DecodePBM or of the
\* uncompressed DecodeFAXX: a failed read leaves through the cleanup
ScratchRowRead(s, readOk) ==
    IF ~readOk
    THEN ScratchReturn(ScratchFreeAll(s, ScratchHeld(s)), "failed", IFFPICTURE_BADFILE)
    ELSE [s EXCEPT !.row = s.row + 1]

\* one row of the MH branch of DecodeFAXX: a failed line pads the rest
ScratchRowMH(s, readOk) ==
    IF ~readOk THEN [s EXCEPT !.row = s.height] ELSE [s EXCEPT !.row = s.row + 1]

\* one row of the MR branch of DecodeFAXX; a 2D line runs DecodeMRLine,
\* which allocates curline and frees it on each of its returns
ScratchRowMR(s, nulls, readOk, twoD) ==
    IF ~twoD THEN ScratchRowMH(s, readOk)
    ELSE IF "curline" \in nulls THEN [s EXCEPT !.row = s.height]
    ELSE ScratchRowMH(ScratchFree(ScratchAlloc(s, "curline", nulls), "curline"), readOk)

ScratchRowCall(s, nulls, readOk, twoD) ==
    IF s.decoder \in {"ILBM", "HAM", "EHB", "ACBM"} THEN ScratchRowPlanar(s, nulls, readOk)
    ELSE IF s.decoder = "FAXX" /\ s.compression = FXCMPMH THEN ScratchRowMH(s, readOk)
    ELSE IF s.decoder = "FAXX" /\ s.compression = FXCMPMR
    THEN ScratchRowMR(s, nulls, readOk, twoD)
    ELSE ScratchRowRead(s, readOk)

\* the frees after the row loop and return RETURN_OK
ScratchEndCall(s) ==
    ScratchReturn(ScratchFreeAllIf(s, ScratchHeld(s)), "ok", IFFPICTURE_OK)

ScratchState == [pix EXCEPT !.h = heap]

ScratchCalls ==
    {[status |-> "entered", decoder |-> d, masking |-> m, compression |-> c,
      height |-> h, row |-> 0, b |-> NoScratch, h |-> <<>>, error |-> IFFPICTURE_OK] :
        d \in {"ILBM", "HAM", "EHB", "DEEP", "RGBN", "RGB8", "PBM ", "ACBM", "FAXX"},
        m \in {mskNone, mskHasMask}, c \in {FXCMPNONE, FXCMPMH, FXCMPMR, FXCMPMMR},
        h \in 1..MaxScratchRows}

ScratchInit ==
    /\ pix \in {s \in ScratchCalls :
                   /\ s.decoder # "ILBM" => s.masking = mskNone
                   /\ s.decoder # "FAXX" => s.compression = FXCMPNONE}
    /\ heap = <<>>
    /\ pic = PicIdle /\ file = FileIdle /\ ret = RetIdle
    /\ rle = RleIdle /\ fax = FaxIdle

ScratchStep(s) ==
    /\ pix' = [s EXCEPT !.h = <<>>]
    /\ heap' = s.h
    /\ UNCHANGED <<pic, file, ret, rle, fax>>

ScratchBegin ==
    /\ pix.status = "entered"
    /\ \E nulls \in SUBSET ScratchNames, readOk \in BOOLEAN :
        /\ Cardinality(nulls) <= 1
        /\ LET s == ScratchBeginCall(ScratchState, nulls, readOk)
           IN  ScratchStep(IF s.status = "entered" THEN [s EXCEPT !.status = "rows"] ELSE s)

ScratchRow ==
    /\ pix.status = "rows"
    /\ pix.row < pix.height
    /\ \E nulls \in SUBSET ScratchNames, readOk \in BOOLEAN, twoD \in BOOLEAN :
        /\ Cardinality(nulls) <= 1
        /\ ScratchStep(ScratchRowCall(ScratchState, nulls, readOk, twoD))

ScratchEnd ==
    /\ pix.status = "rows"
    /\ pix.row = pix.height
    /\ ScratchStep(ScratchEndCall(ScratchState))

ScratchNext == ScratchBegin \/ ScratchRow \/ ScratchEnd

SpecScratch == ScratchInit /\ [][ScratchNext]_vars

\* C23: when a decoder call has returned, with success or with any error,
\* every scratch buffer it allocated has been released exactly once: no block
\* of the call is still allocated and none was released twice.
C23_ScratchReleasedOnReturn ==
    pix.status \in {"ok", "failed"} =>
        \A i \in 1..Len(heap) : heap[i] = "freed"

\* a call that failed inside its row loop while holding three buffers
C23_Witness ==
    /\ pix.status = "failed"
    /\ pix.error = IFFPICTURE_BADFILE
    /\ pix.row > 0
    /\ Len(heap) >= 3
    /\ \A i \in 1..Len(heap) : heap[i] = "freed"

(***************************************************************************)
(* Ownership of the picture's buffers over sequences of calls (Spec)        *)
(***************************************************************************)
\* C24: a picture marked decoded has a non-null pixel buffer, so that
\* DecodeToRGB, which hands out pixelData whenever isDecoded is set, never
\* reports success with a null buffer, also after a later Decode has failed.
C24_DecodedHasPixelData ==
    (~pic.released /\ pic.isDecoded) => pic.pixelData # 0

\* C25: no buffer owned by a picture is released twice: after a decode that
\* failed inside a decoder, a later FreeIFFPicture or Decode does not free
\* the palette-index buffer a second time.
C25_NoBufferFreedTwice ==
    \A i \in 1..Len(heap) : heap[i] # "twice"

\* C26: a Decode that directly follows a ParseIFFPicture that returned
\* failure is rejected with IFFPICTURE_INVALID and reads nothing from the
\* pixel-data chunk.
C26_DecodeAfterFailedParseRejected ==
    [][(/\ ret.call = "ParseIFFPicture" /\ ret.result = RETURN_FAIL
        /\ pic.pc = "idle"
        /\ ret'.call = "Decode") =>
            (/\ ret'.result = RETURN_FAIL
             /\ pic'.lastError = IFFPICTURE_INVALID
             /\ pic'.consumed = pic.consumed)]_vars

\* C27: a Decode that directly follows CloseIFFPicture fails with an error
\* and attempts no read through the chunk-reader handle that was released,
\* whatever the variant of the picture.
C27_DecodeAfterCloseReadsNothing ==
    [][(/\ ret.call = "CloseIFFPicture" /\ pic.iff = "null"
        /\ ret'.call = "Decode") =>
            (/\ ret'.result = RETURN_FAIL
             /\ pic'.lastError # IFFPICTURE_OK
             /\ pic'.consumed = pic.consumed)]_vars

\* C28: once FreeIFFPicture has returned, every pixel or palette-index
\* buffer that was allocated for the picture has been released: no block is
\* left allocated because its pointer was overwritten.
C28_NoBufferOrphaned ==
    pic.released => \A i \in 1..Len(heap) : heap[i] # "live"

(***************************************************************************)
(* The palette reads of the decoders: for one pixel value and one palette   *)
(* size, the entry index the decoder reads cmapData at.  pix holds the      *)
(* decoder, the palette, the pixel byte and, once read, the index used.     *)
(***************************************************************************)
MaxNumColors == 300

\* entry counts ReadCMAP stores: the chunk size divided by 3, never 0
LookupColors == {1, 2, 3, 16, 32, 64, 255, 256, 257, MaxNumColors}

LookupDecoders == {"ILBM", "EHB", "PBM ", "ACBM", "FAXX", "HAM"}

\* DecodeILBM, DecodeEHB, DecodePBM, DecodeACBM and DecodeFAXX clamp the
\* index and read; DecodeHAM reads only for HAMCODE_CMAP with an index
\* inside the palette and computes a gray otherwise
PaletteRead(p) ==
    IF p.decoder = "HAM"
    THEN IF /\ HamCode(p, p.value) = HAMCODE_CMAP
            /\ p.cmap.numcolors > 0
            /\ HamIndex(p, p.value) < p.cmap.numcolors
         THEN [p EXCEPT !.status = "read", !.reads = TRUE,
                        !.index = HamIndex(p, p.value)]
         ELSE [p EXCEPT !.status = "read", !.reads = FALSE]
    ELSE [p EXCEPT !.status = "read", !.reads = TRUE,
                   !.index = ClampIndex(p.cmap, p.value)]

\* the rows DecodeFAXX pads after a failed line are read from cmapData[0..2]
PaletteReadPad(p) ==
    [p EXCEPT !.status = "read", !.reads = TRUE, !.index = 0]

LookupInit ==
    /\ pix \in {[status |-> "pixel", decoder |-> d, nPlanes |-> n,
                 cmap |-> [numcolors |-> c], value |-> v,
                 reads |-> FALSE, index |-> 0] :
                    d \in LookupDecoders, n \in HamDepths, c \in LookupColors,
                    v \in 0..255}
    /\ pix.decoder # "HAM" => pix.nPlanes = 8
    /\ pic = PicIdle /\ heap = HeapIdle /\ file = FileIdle /\ ret = RetIdle
    /\ rle = RleIdle /\ fax = FaxIdle

LookupPixel ==
    /\ pix.status = "pixel"
    /\ pix' = PaletteRead(pix)
    /\ UNCHANGED <<pic, heap, file, ret, rle, fax>>

LookupPad ==
    /\ pix.status = "pixel"
    /\ pix.decoder = "FAXX"
    /\ pix' = PaletteReadPad(pix)
    /\ UNCHANGED <<pic, heap, file, ret, rle, fax>>

LookupNext == LookupPixel \/ LookupPad

SpecLookup == LookupInit /\ [][LookupNext]_vars

\* C29: every palette read of a decoder uses an entry index smaller than the
\* palette's entry count, for any pixel byte and any palette size ReadCMAP
\* stores.
C29_PaletteReadInRange ==
    (pix.status = "read" /\ pix.reads) => pix.index < pix.cmap.numcolors

\* a pixel byte beyond the palette was clamped to the last entry and read
C29_Witness ==
    /\ pix.status = "read" /\ pix.reads
    /\ pix.decoder = "ILBM"
    /\ pix.value >= pix.cmap.numcolors
    /\ pix.index = pix.cmap.numcolors - 1

(***************************************************************************)
(* The loops of the decoders, one iteration per step: the run-length loop   *)
(* of DecompressByteRun1 (the Rle actions on rle), and on fax the scan      *)
(* loop of SkipToEOL with its alignment loop, the run loop of DecodeMHLine  *)
(* and the code and bit loops of DecodeMHRun.                               *)
(***************************************************************************)
MaxLoopBytes == 3
MaxLoopWidth == 2

\* zero bits, the end of an EOL (00010000), the white run of length 0
\* (00110101) and the white make-up code 64 (11011) followed by 011 or by
\* 110, the start of the same make-up code again
LoopBytes == {0, 16, 53, 219, 222}

LoopStart(task, src, width) ==
    [status |-> IF task = "SkipToEOL" THEN "eol" ELSE "line", task |-> task,
     bs |-> InitFaxBitstream(src), consecutiveZeros |-> 0, width |-> width,
     pos |-> 0, isWhite |-> TRUE, runCount |-> 0, code |-> 0, bitsRead |-> 0,
     totalRun |-> 0, r |-> 0]

LoopInit ==
    \/ RleInit
    \/ /\ fax \in {LoopStart(task, src, w) :
                      task \in {"SkipToEOL", "DecodeMHLine"},
                      src \in SeqsUpTo(LoopBytes, MaxLoopBytes),
                      w \in 1..MaxLoopWidth}
       /\ fax.task = "SkipToEOL" => fax.width = 1
       /\ pic = PicIdle /\ heap = HeapIdle /\ file = FileIdle /\ ret = RetIdle
       /\ rle = RleIdle /\ pix = PixIdle

LoopReturn(f, bs, r) ==
    [f EXCEPT !.status = "done", !.bs = bs, !.r = r]

\* one turn of while (!bs->eof) in SkipToEOL, rd being the bit it reads and
\* rd2 the bit read after an eleventh zero
SkipToEOLTurn(f, rd, rd2) ==
    IF rd.bit < 0 THEN LoopReturn(f, rd.bs, -1)
    ELSE IF rd.bit = 0
    THEN IF f.consecutiveZeros + 1 = 11
         THEN IF rd2.bit < 0 THEN LoopReturn(f, rd2.bs, -1)
              ELSE IF rd2.bit = 1
              THEN [f EXCEPT !.status = "align", !.bs = rd2.bs]
              ELSE [f EXCEPT !.bs = rd2.bs, !.consecutiveZeros = 0]
         ELSE IF f.consecutiveZeros + 1 > 11
         THEN [f EXCEPT !.bs = rd.bs, !.consecutiveZeros = 0]
         ELSE [f EXCEPT !.bs = rd.bs, !.consecutiveZeros = @ + 1]
    ELSE [f EXCEPT !.bs = rd.bs, !.consecutiveZeros = 0]

LoopEolTurn ==
    /\ fax.status = "eol"
    /\ fax' = IF fax.bs.eof THEN LoopReturn(fax, fax.bs, -1)
              ELSE SkipToEOLTurn(fax, ReadFaxBit(fax.bs),
                                 ReadFaxBit(ReadFaxBit(fax.bs).bs))
    /\ UNCHANGED <<pic, heap, file, ret, rle, pix>>

\* one turn of while ((bs->bitPos % 8) != 0 && !bs->eof) after an EOL
LoopAlignTurn ==
    /\ fax.status = "align"
    /\ fax' = IF (fax.bs.bitPos % 8) # 0 /\ ~fax.bs.eof
              THEN IF ReadFaxBit(fax.bs).bit < 0
                   THEN LoopReturn(fax, ReadFaxBit(fax.bs).bs, 0)
                   ELSE [fax EXCEPT !.bs = ReadFaxBit(fax.bs).bs]
              ELSE LoopReturn(fax, fax.bs, 0)
    /\ UNCHANGED <<pic, heap, file, ret, rle, pix>>

\* the head of while (pos < width && runCount < maxRuns) in DecodeMHLine:
\* it calls DecodeMHRun, or leaves the loop and pads the line
LoopLineTurn ==
    /\ fax.status = "line"
    /\ fax' = IF fax.pos < fax.width /\ fax.runCount < ((fax.width * 2) % 65536)
              THEN [fax EXCEPT !.status = "run", !.code = 0, !.bitsRead = 0,
                               !.totalRun = 0]
              ELSE LoopReturn([fax EXCEPT !.pos = fax.width], fax.bs, RETURN_OK)
    /\ UNCHANGED <<pic, heap, file, ret, rle, pix>>

\* DecodeMHLine with the run DecodeMHRun returned: the rest of the turn
LoopRunReturned(f, bs, runLength) ==
    IF runLength < 0
    THEN LoopReturn([f EXCEPT !.pos = f.width], bs, RETURN_OK)
    ELSE [f EXCEPT !.status = "line", !.bs = bs,
                   !.pos = @ + (IF runLength > f.width - f.pos
                                THEN f.width - f.pos ELSE runLength),
                   !.isWhite = ~f.isWhite, !.runCount = @ + 1]

\* one turn of while (bitsRead < 13 && !found) in DecodeMHRun for the bit rd;
\* a make-up code starts the next turn of while (1) with code and bitsRead 0
MHRunBit(f, rd, mk, tm) ==
    IF rd.bit < 0
    THEN LoopRunReturned(f, rd.bs, MHRunEnd(f.totalRun, rd.bs).run)
    ELSE IF mk # 0
    THEN [f EXCEPT !.bs = rd.bs, !.code = 0, !.bitsRead = 0,
                   !.totalRun = @ + mh_makeup_codes[mk][3]]
    ELSE IF tm # 0
    THEN LoopRunReturned(f, rd.bs,
                         f.totalRun + (IF f.isWhite THEN mh_white_codes[tm][3]
                                       ELSE mh_black_codes[tm][3]))
    ELSE IF f.bitsRead + 1 >= 13
    THEN LoopRunReturned(f, rd.bs, MHRunEnd(f.totalRun, rd.bs).run)
    ELSE [f EXCEPT !.bs = rd.bs, !.code = (f.code * 2) + rd.bit,
                   !.bitsRead = @ + 1]

LoopRunBit ==
    /\ fax.status = "run"
    /\ fax' = MHRunBit(fax, ReadFaxBit(fax.bs),
                       FirstMatch(mh_makeup_codes, fax.bitsRead + 1,
                                  (fax.code * 2) + ReadFaxBit(fax.bs).bit),
                       FirstMatch(IF fax.isWhite THEN mh_white_codes
                                  ELSE mh_black_codes,
                                  fax.bitsRead + 1,
                                  (fax.code * 2) + ReadFaxBit(fax.bs).bit))
    /\ UNCHANGED <<pic, heap, file, ret, rle, pix>>

LoopNext ==
    \/ RleReadFail
    \/ RleLiteral
    \/ RleRepeat
    \/ RleNop
    \/ RleReturn
    \/ LoopEolTurn
    \/ LoopAlignTurn
    \/ LoopLineTurn
    \/ LoopRunBit

\* a loop that can take a turn takes it: the code runs on
SpecLoop == LoopInit /\ [][LoopNext]_vars /\ WF_vars(LoopNext)

LoopReturned ==
    \/ rle.status \in {"ok", "fail"}
    \/ fax.status = "done"

\* C30: on every finite pixel-data chunk the run-length loop, the Huffman
\* run and line loops and the end-of-line scan stop after finitely many
\* turns: each of them eventually returns, whatever the bytes are.
C30_LoopsTerminate ==
    <>LoopReturned

\* the end-of-line scan has returned on a chunk of zero bits only
C30_Witness ==
    /\ fax.status = "done"
    /\ fax.task = "SkipToEOL"
    /\ fax.bs.src = <<0, 0, 0>>
    /\ fax.bs.eof
    /\ fax.r = -1

====
